---- MODULE Spec2Model ----
(***************************************************************************)
(* Pentagon Gymnastics diagram scripts.                                    *)
(*                                                                         *)
(* Five specifications over one set of variables:                          *)
(*   SpecGeom  the box-edge intersection utility get_box_edge_point,       *)
(*             applied to boxes and targets drawn from bounded sets;       *)
(*   Spec      the run of a generator script: construction, one figure     *)
(*             per declared diagram, the two savefig calls, the release    *)
(*             of the figure, the exception handlers and the exit status;  *)
(*   SpecDraw  the drawing routine of one diagram: the boxes of its box    *)
(*             table, the text lines of a class box, the lines of its      *)
(*             relationship table and the legend;                          *)
(*   SpecSeq   the drawing routine of one sequence diagram: the lifelines  *)
(*             of its actors and the arrows of its messages;               *)
(*   SpecText  the display of one attribute or method string, truncated    *)
(*             to the script's length limit.                               *)
(*                                                                         *)
(* Python floats are modelled as exact rationals <<n, d>> with d > 0.      *)
(***************************************************************************)
EXTENDS Integers, Sequences, FiniteSets, TLC

VARIABLES
    \* ---- geometry (SpecGeom) ----
    gpc,          \* "input" before the call, "computed" after it
    box_pos,      \* <<x, y, w, h>>
    target_point, \* <<tx, ty>>
    edge_uml,     \* result of professional_uml_class_diagram.get_box_edge_point
    edge_erd,     \* result of professional_dissertation_diagrams.get_box_edge_point
    \* ---- script run (Spec) ----
    script,          \* the script being run, "none" between runs
    pc,              \* position of the run
    idx,             \* 1-based index of the diagram being generated
    backend,         \* matplotlib backend of the run: decides what plt.show() does
    dirExists,       \* does ./dissertation_diagrams exist
    fs,              \* file system: path -> who wrote the content ("absent" if no file)
    openFigs,        \* number of figures registered with pyplot and not closed
    stdout,          \* messages printed so far in this run
    exitStatus,      \* "running", "0" or "1"
    generated_files, \* improved_diagram_generator: the list returned by generate_all_diagrams
    written,         \* paths written by savefig in this run, in order
    failed,          \* indices of the diagrams whose generation raised in this run
    attempted,       \* indices of the diagrams whose generation was started in this run
    runs,            \* number of script runs started
    faults,          \* number of exceptions the library has raised so far
    \* ---- drawing of one diagram (SpecDraw) ----
    diagram,      \* the diagram being drawn
    dpc,          \* position in the drawing routine
    di,           \* 1-based index into the box table or the relationship table
    dj,           \* 1-based index of the text line inside the current class box
    box_keys,     \* keys of the dictionary the relationship guard consults
    rects,        \* rectangles added to the axes so far, in order
    separators,   \* separator lines plotted inside class boxes, in order
    texts,        \* attribute and method text lines placed so far, in order
    rel_lines,    \* relationship lines plotted so far, in order
    skipped,      \* relationship entries the membership guard passed over
    \* ---- drawing of one sequence diagram (SpecSeq) ----
    seq_diagram,  \* the sequence diagram being drawn
    spc,          \* position in the routine
    si,           \* 1-based index into the actors or the messages
    lifelines,    \* lifelines plotted so far, in order
    arrows,       \* what was drawn for each message so far, in order
    \* ---- display of one text line (SpecText) ----
    tpc,          \* "input" before the line is displayed, then the loop that displayed it
    text,         \* the attribute or method string, as a sequence of characters
    text_limit,   \* the length limit of the script that displays it
    display_text  \* the string handed to ax.text

gvars == <<gpc, box_pos, target_point, edge_uml, edge_erd>>
rvars == <<script, pc, idx, backend, dirExists, fs, openFigs, stdout, exitStatus,
           generated_files, written, failed, attempted, runs, faults>>
dvars == <<diagram, dpc, di, dj, box_keys, rects, separators, texts, rel_lines, skipped>>
svars == <<seq_diagram, spc, si, lifelines, arrows>>
tvars == <<tpc, text, text_limit, display_text>>
vars == <<gvars, rvars, dvars, svars, tvars>>

(***************************************************************************)
(* Bounds                                                                  *)
(***************************************************************************)
MaxOrigin == 1
MaxSize == 10
TargetBelow == 3
MaxTarget == 20
MaxRuns == 2
MaxFailures == 1
MaxTextLen == 33

(***************************************************************************)
(* Exact rational arithmetic standing for Python float arithmetic          *)
(***************************************************************************)
Abs(n) == IF n < 0 THEN -n ELSE n

I(n) == <<n, 1>>
FAdd(a, b) == <<a[1] * b[2] + b[1] * a[2], a[2] * b[2]>>
FSub(a, b) == <<a[1] * b[2] - b[1] * a[2], a[2] * b[2]>>
FMul(a, b) == <<a[1] * b[1], a[2] * b[2]>>
\* a / b for b # 0, keeping the denominator positive
FDiv(a, b) == IF b[1] > 0 THEN <<a[1] * b[2], a[2] * b[1]>>
                          ELSE <<-(a[1] * b[2]), -(a[2] * b[1])>>
FAbs(a) == <<Abs(a[1]), a[2]>>
FIsZero(a) == a[1] = 0
FEq(a, b) == a[1] * b[2] = b[1] * a[2]
FLt(a, b) == a[1] * b[2] < b[1] * a[2]
FLe(a, b) == a[1] * b[2] <= b[1] * a[2]
FGt(a, b) == FLt(b, a)

\* integer tuples as tuples of rationals
Q2(t) == <<I(t[1]), I(t[2])>>
Q4(t) == <<I(t[1]), I(t[2]), I(t[3]), I(t[4])>>

Point(px, py) == [status |-> "ok", x |-> px, y |-> py]
ZeroDivisionError == [status |-> "ZeroDivisionError", x |-> I(0), y |-> I(0)]
NoResult == [status |-> "none", x |-> I(0), y |-> I(0)]

(***************************************************************************)
(* Faulty variants of get_box_edge_point, used to test the theorems below  *)
(*   "half"  the side branch interpolates with h/2 instead of w/2          *)
(*   "side"  the right and left edges are exchanged                        *)
(*   "top"   the top and bottom edges are exchanged                        *)
(*   "tie"   the edge test is >= instead of >                              *)
(*   "div"   the top/bottom branch divides by abs(dx)                      *)
(*   "guard" a zero direction returns the center instead of raising        *)
(***************************************************************************)
EdgePointBug(bp, tp, bug) ==
    LET x == bp[1]
        y == bp[2]
        w == bp[3]
        h == bp[4]
        tx == tp[1]
        ty == tp[2]
        cx == FAdd(x, FDiv(w, I(2)))
        cy == FAdd(y, FDiv(h, I(2)))
        dx == FSub(tx, cx)
        dy == FSub(ty, cy)
        sideHalf == IF bug = "half" THEN FDiv(h, I(2)) ELSE FDiv(w, I(2))
        right == IF bug = "side" THEN x ELSE FAdd(x, w)
        left == IF bug = "side" THEN FAdd(x, w) ELSE x
        top == IF bug = "top" THEN y ELSE FAdd(y, h)
        bottom == IF bug = "top" THEN FAdd(y, h) ELSE y
        divisor == IF bug = "div" THEN FAbs(dx) ELSE FAbs(dy)
        raised == IF bug = "guard" THEN Point(cx, cy) ELSE ZeroDivisionError
        sideTest == IF bug = "tie" THEN FLe(FAbs(dy), FAbs(dx))
                                   ELSE FGt(FAbs(dx), FAbs(dy))
    IN  IF sideTest
        THEN IF FIsZero(FAbs(dx)) THEN raised
             ELSE Point(IF FGt(dx, I(0)) THEN right ELSE left,
                        FAdd(cy, FDiv(FMul(dy, sideHalf), FAbs(dx))))
        ELSE IF FIsZero(divisor) THEN raised
             ELSE Point(FAdd(cx, FDiv(FMul(dx, FDiv(h, I(2))), divisor)),
                        IF FGt(dy, I(0)) THEN top ELSE bottom)

get_box_edge_point_half(bp, tp) == EdgePointBug(bp, tp, "half")
get_box_edge_point_side(bp, tp) == EdgePointBug(bp, tp, "side")
get_box_edge_point_top(bp, tp) == EdgePointBug(bp, tp, "top")
get_box_edge_point_tie(bp, tp) == EdgePointBug(bp, tp, "tie")
get_box_edge_point_div(bp, tp) == EdgePointBug(bp, tp, "div")
get_box_edge_point_guard(bp, tp) == EdgePointBug(bp, tp, "guard")
get_box_edge_point_erd_half(bp, tp) == EdgePointBug(bp, tp, "half")

(***************************************************************************)
(* get_box_edge_point, professional_uml_class_diagram.py                   *)
(***************************************************************************)
get_box_edge_point(bp, tp) ==
    LET x == bp[1]
        y == bp[2]
        w == bp[3]
        h == bp[4]
        tx == tp[1]
        ty == tp[2]
        cx == FAdd(x, FDiv(w, I(2)))
        cy == FAdd(y, FDiv(h, I(2)))
        dx == FSub(tx, cx)
        dy == FSub(ty, cy)
    IN  IF FGt(FAbs(dx), FAbs(dy))
        THEN IF FIsZero(FAbs(dx)) THEN ZeroDivisionError
             ELSE IF FGt(dx, I(0))
                  THEN Point(FAdd(x, w),
                             FAdd(cy, FDiv(FMul(dy, FDiv(w, I(2))), FAbs(dx))))
                  ELSE Point(x,
                             FAdd(cy, FDiv(FMul(dy, FDiv(w, I(2))), FAbs(dx))))
        ELSE IF FIsZero(FAbs(dy)) THEN ZeroDivisionError
             ELSE IF FGt(dy, I(0))
                  THEN Point(FAdd(cx, FDiv(FMul(dx, FDiv(h, I(2))), FAbs(dy))),
                             FAdd(y, h))
                  ELSE Point(FAdd(cx, FDiv(FMul(dx, FDiv(h, I(2))), FAbs(dy))),
                             y)

(***************************************************************************)
(* get_box_edge_point, professional_dissertation_diagrams.py               *)
(***************************************************************************)
get_box_edge_point_erd(bp, tp) ==
    LET x == bp[1]
        y == bp[2]
        w == bp[3]
        h == bp[4]
        tx == tp[1]
        ty == tp[2]
        cx == FAdd(x, FDiv(w, I(2)))
        cy == FAdd(y, FDiv(h, I(2)))
        dx == FSub(tx, cx)
        dy == FSub(ty, cy)
    IN  IF FGt(FAbs(dx), FAbs(dy))
        THEN IF FIsZero(FAbs(dx)) THEN ZeroDivisionError
             ELSE IF FGt(dx, I(0))
                  THEN Point(FAdd(x, w),
                             FAdd(cy, FDiv(FMul(dy, FDiv(w, I(2))), FAbs(dx))))
                  ELSE Point(x,
                             FAdd(cy, FDiv(FMul(dy, FDiv(w, I(2))), FAbs(dx))))
        ELSE IF FIsZero(FAbs(dy)) THEN ZeroDivisionError
             ELSE IF FGt(dy, I(0))
                  THEN Point(FAdd(cx, FDiv(FMul(dx, FDiv(h, I(2))), FAbs(dy))),
                             FAdd(y, h))
                  ELSE Point(FAdd(cx, FDiv(FMul(dx, FDiv(h, I(2))), FAbs(dy))),
                             y)

(***************************************************************************)
(* The generator scripts and their static tables                           *)
(***************************************************************************)
GA == "generate_all_diagrams"
AC == "academic_diagram_generator"
FX == "fixed_diagram_generator"
IM == "improved_diagram_generator"
DG == "diagram_generator"
PD == "professional_dissertation_diagrams"
PU == "professional_uml_class_diagram"
AD == "advanced_sequence_diagrams"
SQ == "sequence_diagram_generator"

Scripts == {GA, AC, FX, IM, DG, PD, PU, AD, SQ}

OUTPUT_DIR == "dissertation_diagrams"
CWD == "."

\* name.lower().replace(' ', '_') on the names of the diagrams lists
Slug(name) ==
    CASE name = "Class Diagram" -> "class_diagram"
      [] name = "ERD Diagram" -> "erd_diagram"
      [] name = "Sequence Diagram" -> "sequence_diagram"
      [] name = "Component Diagram" -> "component_diagram"

DiagramList == <<"Class Diagram", "ERD Diagram", "Sequence Diagram", "Component Diagram">>

D(name, file) == [name |-> name, file |-> file]

\* the diagrams a script declares, in generation order
Diagrams(s) ==
    CASE s = GA -> << D("erd", "pentagon_gym_erd"),
                      D("system_architecture", "pentagon_gym_system_architecture"),
                      D("class_diagram", "pentagon_gym_class_diagram"),
                      D("registration_sequence", "pentagon_gym_registration_sequence"),
                      D("booking_sequence", "pentagon_gym_booking_sequence"),
                      D("subscription_sequence", "pentagon_gym_subscription_sequence") >>
      [] s = AC -> [i \in 1..Len(DiagramList) |->
                      D(DiagramList[i], "academic_" \o Slug(DiagramList[i]))]
      [] s = FX -> [i \in 1..Len(DiagramList) |->
                      D(DiagramList[i], "pentagon_gym_" \o Slug(DiagramList[i]))]
      [] s = IM -> << D("erd", "pentagon_gym_erd"),
                      D("system_architecture", "pentagon_gym_system_architecture"),
                      D("class_diagram", "pentagon_gym_class_diagram"),
                      D("sequence_diagram", "pentagon_gym_sequence_diagram") >>
      [] s = DG -> << D("erd", "pentagon_gym_erd"),
                      D("system_architecture", "pentagon_gym_system_architecture"),
                      D("class_diagram", "pentagon_gym_class_diagram") >>
      [] s = PD -> << D("comprehensive_erd", "pentagon_gym_comprehensive_erd"),
                      D("comprehensive_uml", "pentagon_gym_comprehensive_uml") >>
      [] s = PU -> << D("uml_class", "pentagon_gym_professional_uml_class") >>
      [] s = AD -> << D("system_architecture", "pentagon_gym_system_architecture"),
                      D("registration_sequence", "pentagon_gym_registration_sequence"),
                      D("booking_sequence", "pentagon_gym_booking_sequence"),
                      D("subscription_sequence", "pentagon_gym_subscription_sequence") >>
      [] s = SQ -> << D("registration_sequence", "pentagon_gym_registration_sequence"),
                      D("booking_sequence", "pentagon_gym_booking_sequence"),
                      D("subscription_sequence", "pentagon_gym_subscription_sequence") >>

NumDiagrams(s) == Len(Diagrams(s))

\* scripts whose entry point constructs a generator object
HasGenerator(s) == s \notin {AC, FX}

\* faulty variant: every script saves by bare file name
OutputDir_cwd(s) == CWD

\* the directory the savefig paths of a script are relative to
OutputDir(s) == IF s \in {AC, FX, PU} THEN CWD ELSE OUTPUT_DIR

\* faulty variant: save_diagrams wraps its whole loop in the try block
Handler_run(s) ==
    CASE s \in {AC, FX, GA, IM} -> "whole_run"
      [] OTHER -> "none"

\* where a raised exception is caught
Handler(s) ==
    CASE s \in {AC, FX} -> "per_diagram"
      [] s \in {GA, IM} -> "whole_run"
      [] OTHER -> "none"

\* what a script does with a figure once its two files are saved
Release(s) ==
    CASE s \in {GA, AC, FX, IM, PD, AD} -> "close"
      [] s \in {DG, SQ} -> "show"
      [] OTHER -> "never"

PngPath(s, i) == <<OutputDir(s), Diagrams(s)[i].file, "png">>

\* faulty variant: the vector file is saved under the raster file's name
PdfPath_png(s, i) == <<OutputDir(s), Diagrams(s)[i].file, "png">>

PdfPath(s, i) == <<OutputDir(s), Diagrams(s)[i].file, "pdf">>

Files == UNION {{Diagrams(s)[i].file : i \in 1..NumDiagrams(s)} : s \in Scripts}
Paths == {OUTPUT_DIR, CWD} \X Files \X {"png", "pdf"}

PreExistingPath == <<OUTPUT_DIR, "pentagon_gym_erd", "png">>
EmptyFs == [p \in Paths |-> "absent"]

\* os.makedirs(path): creates the directory, raises if it exists
Makedirs(exists) == IF exists THEN "FileExistsError" ELSE "created"

\* faulty variant: os.makedirs without the existence test
ensure_output_directory_unguarded(exists) == Makedirs(exists)

\* if not os.path.exists(self.output_dir): os.makedirs(self.output_dir)
ensure_output_directory(exists) == IF ~exists THEN Makedirs(exists) ELSE "kept"

DirPresent(s) == OutputDir(s) = CWD \/ dirExists

\* if generated_files: ... else: sys.exit(1)
ImprovedMainExit(gf) == IF Len(gf) > 0 THEN "0" ELSE "1"

\* is the statement that raised inside the try block that wraps the run:
\* main() of generate_all_diagrams.py constructs the generator inside it,
\* main() of improved_diagram_generator.py constructs it before
CaughtByRunHandler(s, i) ==
    IF Handler(s) = "whole_run" THEN (i >= 1 \/ s = GA) ELSE FALSE

Msg(kind, name) == [kind |-> kind, name |-> name]

\* may the plotting library raise once more (the number of raises is bounded)
CanFail == faults < MaxFailures

(***************************************************************************)
(* Script run                                                              *)
(***************************************************************************)
StartRun(s) ==
    /\ pc = "idle"
    /\ runs < MaxRuns
    /\ script' = s
    /\ pc' = IF HasGenerator(s) THEN "construct" ELSE "loop"
    /\ idx' = IF HasGenerator(s) THEN 0 ELSE 1
    /\ backend' \in IF Release(s) = "show" THEN {"interactive", "noninteractive"}
                                          ELSE {"noninteractive"}
    /\ openFigs' = 0
    /\ stdout' = <<>>
    /\ exitStatus' = "running"
    /\ generated_files' = <<>>
    /\ written' = <<>>
    /\ failed' = {}
    /\ attempted' = {}
    /\ runs' = runs + 1
    /\ UNCHANGED <<dirExists, fs, faults, gvars, dvars, svars, tvars>>

\* the generator's __init__
Construct ==
    /\ pc = "construct"
    /\ LET r == IF OutputDir(script) = OUTPUT_DIR
                THEN ensure_output_directory(dirExists) ELSE "kept"
       IN  /\ dirExists' = (dirExists \/ r = "created")
           /\ pc' = IF r = "FileExistsError" THEN "raised" ELSE "loop"
           /\ idx' = IF r = "FileExistsError" THEN 0 ELSE 1
           /\ stdout' = IF r = "created" /\ script = GA
                        THEN Append(stdout, Msg("created_dir", OUTPUT_DIR)) ELSE stdout
    /\ UNCHANGED <<script, backend, fs, openFigs, exitStatus, generated_files,
                   written, failed, attempted, runs, faults, gvars, dvars, svars, tvars>>

\* plt.subplots(...) followed by the drawing calls of one diagram
BeginDiagram ==
    /\ pc = "loop"
    /\ idx <= NumDiagrams(script)
    /\ \E outcome \in {"ok", "raise_before_figure", "raise_while_drawing"} :
          /\ outcome # "ok" => CanFail
          /\ openFigs' = IF outcome = "raise_before_figure" THEN openFigs ELSE openFigs + 1
          /\ pc' = IF outcome = "ok" THEN "drawn" ELSE "raised"
          /\ failed' = IF outcome = "ok" THEN failed ELSE failed \cup {idx}
          /\ faults' = IF outcome = "ok" THEN faults ELSE faults + 1
    /\ attempted' = attempted \cup {idx}
    /\ stdout' = IF Handler(script) = "per_diagram"
                 THEN Append(stdout, Msg("creating", Diagrams(script)[idx].name))
                 ELSE stdout
    /\ UNCHANGED <<script, idx, backend, dirExists, fs, exitStatus, generated_files,
                   written, runs, gvars, dvars, svars, tvars>>

\* savefig of the raster file
SavePng ==
    /\ pc = "drawn"
    /\ \E outcome \in {"ok", "raise"} :
          /\ outcome = "ok" => DirPresent(script)
          /\ outcome = "raise" => (CanFail \/ ~DirPresent(script))
          /\ IF outcome = "ok"
             THEN /\ fs' = [fs EXCEPT ![PngPath(script, idx)] = script]
                  /\ written' = Append(written, PngPath(script, idx))
                  /\ pc' = "png"
                  /\ UNCHANGED <<failed, faults>>
             ELSE /\ pc' = "raised"
                  /\ failed' = failed \cup {idx}
                  /\ faults' = faults + 1
                  /\ UNCHANGED <<fs, written>>
    /\ UNCHANGED <<script, idx, backend, dirExists, openFigs, stdout, exitStatus,
                   generated_files, attempted, runs, gvars, dvars, svars, tvars>>

\* savefig of the vector file
SavePdf ==
    /\ pc = "png"
    /\ \E outcome \in {"ok", "raise"} :
          /\ outcome = "ok" => DirPresent(script)
          /\ outcome = "raise" => (CanFail \/ ~DirPresent(script))
          /\ IF outcome = "ok"
             THEN /\ fs' = [fs EXCEPT ![PdfPath(script, idx)] = script]
                  /\ written' = Append(written, PdfPath(script, idx))
                  /\ pc' = "pdf"
                  /\ UNCHANGED <<failed, faults>>
             ELSE /\ pc' = "raised"
                  /\ failed' = failed \cup {idx}
                  /\ faults' = faults + 1
                  /\ UNCHANGED <<fs, written>>
    /\ UNCHANGED <<script, idx, backend, dirExists, openFigs, stdout, exitStatus,
                   generated_files, attempted, runs, gvars, dvars, svars, tvars>>

\* the figures left open by what follows the two savefig calls
AfterSave(s, be, n) ==
    CASE Release(s) = "close" -> n - 1
      [] Release(s) = "show" -> IF be = "interactive" THEN 0 ELSE n
      [] OTHER -> n

\* plt.close(...) / plt.show() / nothing, then on to the next diagram
ReleaseFigure ==
    /\ pc = "pdf"
    /\ openFigs' = AfterSave(script, backend, openFigs)
    /\ generated_files' = IF script = IM
                          THEN Append(generated_files, PngPath(script, idx))
                          ELSE generated_files
    /\ stdout' = Append(stdout, Msg("saved", Diagrams(script)[idx].name))
    /\ idx' = idx + 1
    /\ pc' = "loop"
    /\ UNCHANGED <<script, backend, dirExists, fs, exitStatus, written, failed,
                   attempted, runs, faults, gvars, dvars, svars, tvars>>

\* except Exception as e: inside the for loop of save_diagrams
ExceptPerDiagram ==
    /\ pc = "raised"
    /\ idx >= 1
    /\ Handler(script) = "per_diagram"
    /\ stdout' = Append(stdout, Msg("error", Diagrams(script)[idx].name))
    /\ idx' = idx + 1
    /\ pc' = "loop"
    /\ UNCHANGED <<script, backend, dirExists, fs, openFigs, exitStatus,
                   generated_files, written, failed, attempted, runs, faults, gvars, dvars, svars, tvars>>

\* except Exception as e: around the whole run
ExceptWholeRun ==
    /\ pc = "raised"
    /\ CaughtByRunHandler(script, idx)
    /\ stdout' = Append(stdout, Msg("error", ""))
    /\ generated_files' = <<>>
    /\ exitStatus' = IF script = IM THEN ImprovedMainExit(generated_files') ELSE "1"
    /\ pc' = "done"
    /\ UNCHANGED <<script, idx, backend, dirExists, fs, openFigs, written, failed,
                   attempted, runs, faults, gvars, dvars, svars, tvars>>

\* no handler on the stack: the interpreter prints a traceback and exits 1
Uncaught ==
    /\ pc = "raised"
    /\ Handler(script) # "per_diagram"
    /\ ~CaughtByRunHandler(script, idx)
    /\ exitStatus' = "1"
    /\ pc' = "done"
    /\ UNCHANGED <<script, idx, backend, dirExists, fs, openFigs, stdout,
                   generated_files, written, failed, attempted, runs, faults, gvars, dvars, svars, tvars>>

\* the code after the last diagram: the closing messages and the exit status
Finish ==
    /\ pc = "loop"
    /\ idx > NumDiagrams(script)
    /\ stdout' = Append(stdout, Msg("success", ""))
    /\ exitStatus' = IF script = IM THEN ImprovedMainExit(generated_files) ELSE "0"
    /\ pc' = "done"
    /\ UNCHANGED <<script, idx, backend, dirExists, fs, openFigs, generated_files,
                   written, failed, attempted, runs, faults, gvars, dvars, svars, tvars>>

\* the process is gone; the files stay
EndRun ==
    /\ pc = "done"
    /\ pc' = "idle"
    /\ script' = "none"
    /\ idx' = 0
    /\ openFigs' = 0
    /\ stdout' = <<>>
    /\ exitStatus' = "running"
    /\ generated_files' = <<>>
    /\ written' = <<>>
    /\ failed' = {}
    /\ attempted' = {}
    /\ UNCHANGED <<backend, dirExists, fs, runs, faults, gvars, dvars, svars, tvars>>

GeomIdle ==
    /\ gpc = "input"
    /\ box_pos = <<0, 0, 10, 10>>
    /\ target_point = <<20, 5>>
    /\ edge_uml = NoResult
    /\ edge_erd = NoResult

RunIdle ==
    /\ script = "none"
    /\ pc = "idle"
    /\ idx = 0
    /\ backend = "noninteractive"
    /\ openFigs = 0
    /\ stdout = <<>>
    /\ exitStatus = "running"
    /\ generated_files = <<>>
    /\ written = <<>>
    /\ failed = {}
    /\ attempted = {}
    /\ runs = 0
    /\ faults = 0

DrawIdle ==
    /\ diagram = "none"
    /\ dpc = "idle"
    /\ di = 0
    /\ dj = 0
    /\ box_keys = {}
    /\ rects = <<>>
    /\ separators = <<>>
    /\ texts = <<>>
    /\ rel_lines = <<>>
    /\ skipped = <<>>

SeqIdle ==
    /\ seq_diagram = "none"
    /\ spc = "idle"
    /\ si = 0
    /\ lifelines = <<>>
    /\ arrows = <<>>

TextIdle ==
    /\ tpc = "input"
    /\ text = <<>>
    /\ text_limit = 0
    /\ display_text = <<>>

Init ==
    /\ GeomIdle
    /\ RunIdle
    /\ DrawIdle
    /\ SeqIdle
    /\ TextIdle
    /\ dirExists \in BOOLEAN
    /\ fs \in IF dirExists
              THEN {EmptyFs, [EmptyFs EXCEPT ![PreExistingPath] = "preexisting"]}
              ELSE {EmptyFs}

Next ==
    \/ \E s \in Scripts : StartRun(s)
    \/ Construct
    \/ BeginDiagram
    \/ SavePng
    \/ SavePdf
    \/ ReleaseFigure
    \/ ExceptPerDiagram
    \/ ExceptWholeRun
    \/ Uncaught
    \/ Finish
    \/ EndRun

Spec == Init /\ [][Next]_vars

(***************************************************************************)
(* The edge-point utility applied to bounded inputs                        *)
(***************************************************************************)
Boxes == (0..MaxOrigin) \X (0..MaxOrigin) \X (0..MaxSize) \X (0..MaxSize)
Targets == (-TargetBelow..MaxTarget) \X (-TargetBelow..MaxTarget)

InitGeom ==
    /\ gpc = "input"
    /\ box_pos \in Boxes
    /\ target_point \in Targets
    /\ edge_uml = NoResult
    /\ edge_erd = NoResult
    /\ RunIdle
    /\ DrawIdle
    /\ SeqIdle
    /\ TextIdle
    /\ dirExists = FALSE
    /\ fs = EmptyFs

CallEdgePoint ==
    /\ gpc = "input"
    /\ edge_uml' = get_box_edge_point(Q4(box_pos), Q2(target_point))
    /\ edge_erd' = get_box_edge_point_erd(Q4(box_pos), Q2(target_point))
    /\ gpc' = "computed"
    /\ UNCHANGED <<box_pos, target_point, rvars, dvars, svars, tvars>>

NextGeom == CallEdgePoint

SpecGeom == InitGeom /\ [][NextGeom]_vars

(***************************************************************************)
(* Drawing of one diagram: the static tables                               *)
(***************************************************************************)
\* keys of class_positions of create_diagram, in declaration order
ClassOrder == <<"User", "Member", "Instructor", "Administrator", "Class", "Schedule", "Booking", "Subscription", "Package", "Payment", "Transaction", "Gear">>

class_positions ==
    [ User |-> <<10, 85, 25, 20>>,
      Member |-> <<5, 55, 25, 25>>,
      Instructor |-> <<40, 55, 25, 25>>,
      Administrator |-> <<75, 85, 25, 20>>,
      Class |-> <<110, 75, 25, 30>>,
      Schedule |-> <<110, 40, 25, 20>>,
      Booking |-> <<40, 25, 25, 25>>,
      Subscription |-> <<5, 25, 25, 25>>,
      Package |-> <<75, 55, 25, 20>>,
      Payment |-> <<75, 25, 25, 20>>,
      Transaction |-> <<40, 5, 25, 15>>,
      Gear |-> <<110, 5, 25, 20>> ]

\* the 'attributes' and 'methods' lists of class_definitions
class_definitions ==
    [ User |->
        [ attributes |->
            << "- id: UUID",
               "- email: String",
               "- firstName: String",
               "- lastName: String",
               "- phoneNumber: String",
               "- dateOfBirth: Date",
               "- createdAt: DateTime",
               "- updatedAt: DateTime" >>,
          methods |->
            << "+ authenticate(): Boolean",
               "+ updateProfile(): void",
               "+ validateEmail(): Boolean",
               "+ getFullName(): String" >> ],
      Member |->
        [ attributes |->
            << "- membershipType: String",
               "- emergencyContact: String",
               "- medicalInfo: String",
               "- parentGuardian: String",
               "- skillLevel: String",
               "- isActive: Boolean" >>,
          methods |->
            << "+ bookClass(): Booking",
               "+ cancelBooking(): void",
               "+ subscribe(): Subscription",
               "+ getBookingHistory(): List<Booking>",
               "+ updateMembershipType(): void" >> ],
      Instructor |->
        [ attributes |->
            << "- specializations: List<String>",
               "- certifications: List<String>",
               "- hireDate: Date",
               "- hourlyRate: Decimal",
               "- isAvailable: Boolean" >>,
          methods |->
            << "+ createClass(): Class",
               "+ updateSchedule(): void",
               "+ markAttendance(): void",
               "+ getTeachingSchedule(): List<Schedule>",
               "+ addCertification(): void" >> ],
      Administrator |->
        [ attributes |->
            << "- role: String",
               "- permissions: List<String>",
               "- department: String" >>,
          methods |->
            << "+ manageUsers(): void",
               "+ generateReports(): Report",
               "+ configureSystem(): void",
               "+ auditLogs(): List<AuditLog>" >> ],
      Class |->
        [ attributes |->
            << "- id: UUID",
               "- name: String",
               "- description: String",
               "- category: String",
               "- level: String",
               "- maxCapacity: Integer",
               "- duration: Integer",
               "- price: Decimal" >>,
          methods |->
            << "+ addSchedule(): Schedule",
               "+ updateDetails(): void",
               "+ checkCapacity(): Boolean",
               "+ getEnrollmentCount(): Integer" >> ],
      Schedule |->
        [ attributes |->
            << "- id: UUID",
               "- dayOfWeek: String",
               "- startTime: Time",
               "- endTime: Time",
               "- isRecurring: Boolean" >>,
          methods |->
            << "+ createBooking(): Booking",
               "+ checkAvailability(): Boolean",
               "+ updateTiming(): void" >> ],
      Booking |->
        [ attributes |->
            << "- id: UUID",
               "- bookingDate: DateTime",
               "- status: String",
               "- attended: Boolean",
               "- notes: String" >>,
          methods |->
            << "+ confirm(): void",
               "+ cancel(): void",
               "+ markAttendance(): void",
               "+ generateReceipt(): Receipt" >> ],
      Subscription |->
        [ attributes |->
            << "- id: UUID",
               "- startDate: Date",
               "- endDate: Date",
               "- status: String",
               "- autoRenew: Boolean" >>,
          methods |->
            << "+ renew(): void",
               "+ cancel(): void",
               "+ upgrade(): void",
               "+ isActive(): Boolean" >> ],
      Package |->
        [ attributes |->
            << "- id: UUID",
               "- name: String",
               "- description: String",
               "- price: Decimal",
               "- duration: Integer",
               "- classCredits: Integer" >>,
          methods |->
            << "+ calculatePrice(): Decimal",
               "+ applyDiscount(): void",
               "+ isExpired(): Boolean" >> ],
      Payment |->
        [ attributes |->
            << "- id: UUID",
               "- amount: Decimal",
               "- currency: String",
               "- method: String",
               "- status: String",
               "- transactionDate: DateTime" >>,
          methods |->
            << "+ process(): Boolean",
               "+ refund(): void",
               "+ verify(): Boolean",
               "+ generateReceipt(): Receipt" >> ],
      Transaction |->
        [ attributes |->
            << "- id: UUID",
               "- type: String",
               "- amount: Decimal",
               "- timestamp: DateTime" >>,
          methods |->
            << "+ record(): void",
               "+ validate(): Boolean" >> ],
      Gear |->
        [ attributes |->
            << "- id: UUID",
               "- name: String",
               "- category: String",
               "- size: String",
               "- price: Decimal",
               "- stockQuantity: Integer",
               "- isAvailable: Boolean" >>,
          methods |->
            << "+ rent(): Boolean",
               "+ return(): void",
               "+ updateStock(): void",
               "+ checkAvailability(): Boolean" >> ] ]

\* the calls of create_relationships, in order: kind, first box, second box
uml_relationships ==
    << <<"inheritance", "User", "Member">>,
       <<"inheritance", "User", "Instructor">>,
       <<"inheritance", "User", "Administrator">>,
       <<"composition", "Member", "Subscription">>,
       <<"composition", "Class", "Schedule">>,
       <<"composition", "Package", "Subscription">>,
       <<"aggregation", "Instructor", "Class">>,
       <<"aggregation", "Member", "Booking">>,
       <<"association", "Schedule", "Booking">>,
       <<"association", "Booking", "Payment">>,
       <<"association", "Payment", "Transaction">>,
       <<"association", "Member", "Gear">> >>

\* keys of 'classes' in create_class_diagram (academic_diagram_generator.py), in declaration order
ac_classes_order == <<"AuthController", "ClassController",
       "SubscriptionController", "PaymentController", "AuthService",
       "SimulatedPaymentService", "TransactionService",
       "NotificationService", "AuthMiddleware", "AdminMiddleware",
       "ErrorHandler", "CorsMiddleware", "User", "Class", "Session",
       "Booking", "Subscription", "Package", "Transaction", "SimulatedCard">>

\* 'classes' in create_class_diagram (academic_diagram_generator.py): center x, center y, width, height
ac_classes ==
    [ AuthController |-> <<15, 105, 20, 12>>,
      ClassController |-> <<45, 105, 20, 12>>,
      SubscriptionController |-> <<75, 105, 20, 12>>,
      PaymentController |-> <<105, 105, 20, 12>>,
      AuthService |-> <<15, 82, 18, 10>>,
      SimulatedPaymentService |-> <<45, 82, 18, 10>>,
      TransactionService |-> <<75, 82, 18, 10>>,
      NotificationService |-> <<105, 82, 18, 10>>,
      AuthMiddleware |-> <<20, 60, 16, 8>>,
      AdminMiddleware |-> <<45, 60, 16, 8>>,
      ErrorHandler |-> <<70, 60, 16, 8>>,
      CorsMiddleware |-> <<95, 60, 16, 8>>,
      User |-> <<15, 40, 16, 15>>,
      Class |-> <<40, 40, 16, 15>>,
      Session |-> <<65, 40, 16, 15>>,
      Booking |-> <<90, 40, 16, 15>>,
      Subscription |-> <<15, 18, 16, 15>>,
      Package |-> <<40, 18, 16, 15>>,
      Transaction |-> <<65, 18, 16, 15>>,
      SimulatedCard |-> <<90, 18, 16, 15>> ]

\* keys of 'entities' in create_erd_diagram (academic_diagram_generator.py), in declaration order
ac_entities == <<"User", "Subscription", "Package", "Class", "Session",
       "Booking", "Transaction", "SimulatedCard", "GearOrder">>

\* keys of 'classes' in create_class_diagram (fixed_diagram_generator.py), in declaration order
fx_classes_order == <<"AuthController", "ClassController",
       "SubscriptionController", "PaymentController", "AuthService",
       "SimulatedPaymentService", "TransactionService",
       "NotificationService", "AuthMiddleware", "AdminMiddleware",
       "ErrorHandler", "CorsMiddleware", "User", "Class", "Session",
       "Booking", "Subscription", "Package", "Transaction", "SimulatedCard">>

\* 'classes' in create_class_diagram (fixed_diagram_generator.py): center x, center y, width, height
fx_classes ==
    [ AuthController |-> <<8, 85, 18, 12>>,
      ClassController |-> <<30, 85, 18, 12>>,
      SubscriptionController |-> <<52, 85, 18, 12>>,
      PaymentController |-> <<74, 85, 18, 12>>,
      AuthService |-> <<8, 65, 18, 10>>,
      SimulatedPaymentService |-> <<30, 65, 18, 10>>,
      TransactionService |-> <<52, 65, 18, 10>>,
      NotificationService |-> <<74, 65, 18, 10>>,
      AuthMiddleware |-> <<15, 45, 16, 8>>,
      AdminMiddleware |-> <<35, 45, 16, 8>>,
      ErrorHandler |-> <<55, 45, 16, 8>>,
      CorsMiddleware |-> <<75, 45, 16, 8>>,
      User |-> <<8, 28, 16, 14>>,
      Class |-> <<28, 28, 16, 14>>,
      Session |-> <<48, 28, 16, 14>>,
      Booking |-> <<68, 28, 16, 14>>,
      Subscription |-> <<8, 8, 16, 14>>,
      Package |-> <<28, 8, 16, 14>>,
      Transaction |-> <<48, 8, 16, 14>>,
      SimulatedCard |-> <<68, 8, 16, 14>> ]

\* keys of 'entities' in create_erd_diagram (fixed_diagram_generator.py), in declaration order
fx_entities == <<"User", "Subscription", "Package", "Class", "Session",
       "Booking", "Transaction", "SimulatedCard", "GearOrder">>

\* keys of 'entities' in generate_erd_diagram (diagram_generator.py), in declaration order
dg_entities == <<"User", "Class", "Session", "Booking", "Package",
       "Subscription", "GearItem", "GearOrder", "Transaction",
       "SimulatedCard", "ActivityLog">>

\* keys of 'classes' in generate_class_diagram (diagram_generator.py), in declaration order
dg_classes == <<"AuthController", "ClassController",
       "SubscriptionController", "User", "Class", "Subscription",
       "AuthService", "SubscriptionService", "PaymentService",
       "PrismaClient">>

\* keys of 'entities' in generate_erd_diagram (improved_diagram_generator.py), in declaration order
im_entities == <<"User", "Class", "Session", "Booking", "Package",
       "Subscription", "GearItem", "GearOrder", "Transaction",
       "SimulatedCard", "ActivityLog">>

\* keys of 'classes' in generate_class_diagram (improved_diagram_generator.py), in declaration order
im_classes == <<"AuthController", "ClassController",
       "SubscriptionController", "User", "Class", "Subscription",
       "AuthService", "SubscriptionService", "PaymentService",
       "PrismaClient">>

\* keys of 'entity_positions' in generate_comprehensive_erd (professional_dissertation_diagrams.py), in declaration order
pd_entity_positions == <<"User", "Class", "Session", "Booking", "Package",
       "Subscription", "Payment", "Transaction", "PackageClass",
       "GearItem", "GearOrder", "GearOrderItem", "SimulatedCard",
       "SimulatedPayment", "ActivityLog", "TransactionCategory">>

\* keys of 'class_positions' in generate_comprehensive_uml (professional_dissertation_diagrams.py), in declaration order
pd_class_positions == <<"User", "AuthController", "Member", "Instructor",
       "Administrator", "Class", "Session", "Booking", "Package",
       "Subscription", "SubscriptionController", "Payment",
       "PaymentController", "GearItem", "GearController">>

\* endpoints of each entry of 'relationships' in add_academic_relationships (academic_diagram_generator.py)
ac_class_relationships == <<<<"AuthController", "AuthService">>,
       <<"SubscriptionController", "TransactionService">>,
       <<"PaymentController", "SimulatedPaymentService">>,
       <<"AuthMiddleware", "User">>, <<"Session", "Class">>,
       <<"Booking", "User">>, <<"Subscription", "Package">>>>

\* endpoints of each entry of 'relationships' in add_erd_relationships (academic_diagram_generator.py)
ac_erd_relationships == <<<<"User", "Subscription">>,
       <<"Subscription", "Package">>, <<"User", "Booking">>,
       <<"Session", "Booking">>, <<"Class", "Session">>,
       <<"User", "Transaction">>, <<"User", "GearOrder">>>>

\* endpoints of each entry of 'relationships' in add_class_relationships (fixed_diagram_generator.py)
fx_class_relationships == <<<<"AuthController", "AuthService">>,
       <<"SubscriptionController", "TransactionService">>,
       <<"PaymentController", "SimulatedPaymentService">>,
       <<"AuthMiddleware", "User">>, <<"Session", "Class">>,
       <<"Booking", "User">>, <<"Subscription", "Package">>>>

\* endpoints of each entry of 'relationships' in add_erd_relationships (fixed_diagram_generator.py)
fx_erd_relationships == <<<<"User", "Subscription">>,
       <<"Subscription", "Package">>, <<"User", "Booking">>,
       <<"Session", "Booking">>, <<"Class", "Session">>,
       <<"User", "Transaction">>, <<"User", "GearOrder">>>>

\* endpoints of each entry of 'relationships' in generate_erd_diagram (diagram_generator.py)
dg_erd_relationships == <<<<"User", "Booking">>, <<"Session", "Booking">>,
       <<"Class", "Session">>, <<"User", "Subscription">>,
       <<"Package", "Subscription">>, <<"User", "GearOrder">>,
       <<"User", "Transaction">>, <<"User", "ActivityLog">>,
       <<"SimulatedCard", "Subscription">>, <<"SimulatedCard", "GearOrder">>>>

\* endpoints of each entry of 'relationships' in generate_class_diagram (diagram_generator.py)
dg_class_relationships == <<<<"AuthController", "AuthService">>,
       <<"AuthController", "User">>, <<"ClassController", "Class">>,
       <<"SubscriptionController", "SubscriptionService">>,
       <<"SubscriptionController", "Subscription">>,
       <<"SubscriptionService", "PaymentService">>,
       <<"AuthService", "PrismaClient">>,
       <<"SubscriptionService", "PrismaClient">>,
       <<"PaymentService", "PrismaClient">>>>

\* endpoints of each entry of 'relationships' in generate_erd_diagram (improved_diagram_generator.py)
im_erd_relationships == <<<<"User", "Booking">>, <<"Session", "Booking">>,
       <<"Class", "Session">>, <<"User", "Subscription">>,
       <<"Package", "Subscription">>, <<"User", "GearOrder">>,
       <<"User", "Transaction">>, <<"User", "ActivityLog">>,
       <<"SimulatedCard", "Subscription">>, <<"SimulatedCard", "GearOrder">>>>

\* endpoints of each entry of 'relationships' in generate_class_diagram (improved_diagram_generator.py)
im_class_relationships == <<<<"AuthController", "AuthService">>,
       <<"AuthController", "User">>, <<"ClassController", "Class">>,
       <<"SubscriptionController", "SubscriptionService">>,
       <<"SubscriptionController", "Subscription">>,
       <<"SubscriptionService", "PaymentService">>,
       <<"AuthService", "PrismaClient">>,
       <<"SubscriptionService", "PrismaClient">>,
       <<"PaymentService", "PrismaClient">>>>

\* endpoints of each entry of 'relationships' in create_erd_relationships (professional_dissertation_diagrams.py)
pd_erd_relationships == <<<<"User", "Subscription">>,
       <<"User", "Booking">>, <<"User", "GearOrder">>,
       <<"User", "Transaction">>, <<"User", "ActivityLog">>,
       <<"Package", "Subscription">>, <<"Package", "PackageClass">>,
       <<"Class", "Session">>, <<"Class", "PackageClass">>,
       <<"Session", "Booking">>, <<"Subscription", "Payment">>,
       <<"Subscription", "SimulatedPayment">>, <<"GearOrder", "Payment">>,
       <<"GearOrder", "GearOrderItem">>,
       <<"GearOrder", "SimulatedPayment">>,
       <<"GearItem", "GearOrderItem">>,
       <<"SimulatedCard", "SimulatedPayment">>>>

\* faulty variant: the last entry names 'Admin', which no box declares
pd_inheritance_relations_renamed == <<<<"User", "Member">>,
       <<"User", "Instructor">>, <<"User", "Admin">>>>

\* endpoints of each entry of 'inheritance_relations' in create_uml_relationships (professional_dissertation_diagrams.py)
pd_inheritance_relations == <<<<"User", "Member">>,
       <<"User", "Instructor">>, <<"User", "Administrator">>>>

\* endpoints of each entry of 'associations' in create_uml_relationships (professional_dissertation_diagrams.py)
pd_associations == <<<<"Member", "Booking">>, <<"Member", "Subscription">>,
       <<"Session", "Booking">>, <<"Class", "Session">>,
       <<"Package", "Subscription">>, <<"Subscription", "Payment">>,
       <<"AuthController", "User">>,
       <<"SubscriptionController", "Subscription">>,
       <<"PaymentController", "Payment">>, <<"GearController", "GearItem">>>>

(***************************************************************************)
(* Drawing of one diagram: the diagrams and their tables                   *)
(***************************************************************************)
PU_CLASS == "professional_uml_class_diagram.create_diagram"
AC_CLASS == "academic_diagram_generator.create_class_diagram"
AC_ERD == "academic_diagram_generator.create_erd_diagram"
FX_CLASS == "fixed_diagram_generator.create_class_diagram"
FX_ERD == "fixed_diagram_generator.create_erd_diagram"
DG_ERD == "diagram_generator.generate_erd_diagram"
DG_CLASS == "diagram_generator.generate_class_diagram"
IM_ERD == "improved_diagram_generator.generate_erd_diagram"
IM_CLASS == "improved_diagram_generator.generate_class_diagram"
PD_ERD == "professional_dissertation_diagrams.generate_comprehensive_erd"
PD_UML == "professional_dissertation_diagrams.generate_comprehensive_uml"

DrawnDiagrams == {PU_CLASS, AC_CLASS, AC_ERD, FX_CLASS, FX_ERD, DG_ERD, DG_CLASS,
                  IM_ERD, IM_CLASS, PD_ERD, PD_UML}

\* the box table of a diagram: the names of its boxes in declaration order
BoxTable(d) ==
    CASE d = PU_CLASS -> ClassOrder
      [] d = AC_CLASS -> ac_classes_order
      [] d = AC_ERD -> ac_entities
      [] d = FX_CLASS -> fx_classes_order
      [] d = FX_ERD -> fx_entities
      [] d = DG_ERD -> dg_entities
      [] d = DG_CLASS -> dg_classes
      [] d = IM_ERD -> im_entities
      [] d = IM_CLASS -> im_classes
      [] d = PD_ERD -> pd_entity_positions
      [] d = PD_UML -> pd_class_positions

\* the relationship table of a diagram: the two box names of each entry, in
\* the order the lines are drawn
RelationshipTable(d) ==
    CASE d = PU_CLASS -> [i \in DOMAIN uml_relationships |->
                            <<uml_relationships[i][2], uml_relationships[i][3]>>]
      [] d = AC_CLASS -> ac_class_relationships
      [] d = AC_ERD -> ac_erd_relationships
      [] d = FX_CLASS -> fx_class_relationships
      [] d = FX_ERD -> fx_erd_relationships
      [] d = DG_ERD -> dg_erd_relationships
      [] d = DG_CLASS -> dg_class_relationships
      [] d = IM_ERD -> im_erd_relationships
      [] d = IM_CLASS -> im_class_relationships
      [] d = PD_ERD -> pd_erd_relationships
      [] d = PD_UML -> pd_inheritance_relations \o pd_associations

Range(f) == {f[i] : i \in DOMAIN f}

\* entity_boxes / class_boxes start empty and get one key per drawn box; the
\* other diagrams consult the box table itself
GuardFilledByLoop(d) == d \in {DG_ERD, DG_CLASS, IM_ERD, IM_CLASS}

\* create_relationships indexes positions[...] directly, the others test
\* 'a in boxes and b in boxes' first
HasGuard(d) == d # PU_CLASS

\* the diagrams whose rectangles are recorded with their geometry
HasGeometry(d) == d \in {PU_CLASS, AC_CLASS, FX_CLASS}

(***************************************************************************)
(* create_class_box: the layout of one class box                           *)
(***************************************************************************)
RECURSIVE GCD(_, _)
GCD(a, b) == IF b = 0 THEN a ELSE GCD(b, a % b)

\* the same rational in lowest terms
Reduce(a) == LET g == GCD(Abs(a[1]), a[2]) IN <<a[1] \div g, a[2] \div g>>

\* Python max(a, b)
FMax(a, b) == IF FGt(b, a) THEN b ELSE a

Attributes(c) == class_definitions[c].attributes
Methods(c) == class_definitions[c].methods

\* attr_height = len(attributes) * 2.2 + 2
attr_height(c) == FAdd(FMul(I(Len(Attributes(c))), <<22, 10>>), I(2))
\* method_height = len(methods) * 2.2 + 2, the first use of that name
methods_height(c) == FAdd(FMul(I(Len(Methods(c))), <<22, 10>>), I(2))

required_height(c) ==
    FMax(I(class_positions[c][4]), FAdd(I(4), FAdd(attr_height(c), methods_height(c))))

final_height(c) == Reduce(FMax(I(class_positions[c][4]), required_height(c)))

remaining_height(c) == FSub(final_height(c), I(4))

\* method_height, the second use of that name: the height of the method section
method_height(c) ==
    IF Len(Attributes(c)) > 0 /\ Len(Methods(c)) > 0
    THEN Reduce(FMul(remaining_height(c), <<55, 100>>))
    ELSE IF Len(Attributes(c)) > 0 THEN I(0)
    ELSE IF Len(Methods(c)) > 0 THEN remaining_height(c)
    ELSE Reduce(FMul(remaining_height(c), <<5, 10>>))

\* y + final_height - name_height
NameBottom(c) == Reduce(FSub(FAdd(I(class_positions[c][2]), final_height(c)), I(4)))

line1_y(c) == NameBottom(c)

line2_y(c) ==
    IF Len(Attributes(c)) > 0
    THEN Reduce(FAdd(I(class_positions[c][2]), method_height(c)))
    ELSE NameBottom(c)

\* the separator lines plotted for class c
SeparatorLines(c) ==
    (IF Len(Attributes(c)) > 0
     THEN <<[class |-> c, line |-> "line1", y |-> line1_y(c)]>> ELSE <<>>)
    \o
    (IF Len(Methods(c)) > 0
     THEN <<[class |-> c, line |-> "line2", y |-> line2_y(c)]>> ELSE <<>>)

\* attr_y of the attribute with 0-based index i
attr_y(c, i) == Reduce(FSub(FSub(NameBottom(c), I(1)), FMul(I(i), <<22, 10>>)))

method_start_y(c) ==
    IF Len(Attributes(c)) > 0
    THEN FSub(FAdd(I(class_positions[c][2]), method_height(c)), I(1))
    ELSE FSub(NameBottom(c), I(1))

\* method_y of the method with 0-based index i
method_y(c, i) == Reduce(FSub(method_start_y(c), FMul(I(i), <<22, 10>>)))

(***************************************************************************)
(* Drawing of one diagram: rectangles, end points and the steps            *)
(***************************************************************************)
\* the rectangle added to the axes for box b of diagram d: create_class_box
\* draws (x, y), width, final_height; the two class-diagram scripts draw
\* (x - width/2, y - height/2), width, height around the declared center
ClassRect(d, b) ==
    IF d = PU_CLASS
    THEN [name |-> b, kind |-> "class",
          x |-> I(class_positions[b][1]), y |-> I(class_positions[b][2]),
          w |-> I(class_positions[b][3]), h |-> final_height(b)]
    ELSE LET info == IF d = AC_CLASS THEN ac_classes[b] ELSE fx_classes[b]
         IN  [name |-> b, kind |-> "class",
              x |-> Reduce(FSub(I(info[1]), FDiv(I(info[3]), I(2)))),
              y |-> Reduce(FSub(I(info[2]), FDiv(I(info[4]), I(2)))),
              w |-> I(info[3]), h |-> I(info[4])]

\* the rectangles of the legend: one box in add_legend of the UML diagram,
\* one swatch per legend item in add_academic_legend(ax, colors, 5, 108) and
\* add_legend(ax, colors, 5, 95)
LegendRects(d) ==
    CASE d = PU_CLASS ->
           <<[name |-> "legend", kind |-> "legend",
              x |-> I(10), y |-> I(2), w |-> I(50), h |-> I(10)]>>
      [] d = AC_CLASS ->
           [i \in 1..4 |-> [name |-> "legend", kind |-> "legend",
                            x |-> I(5), y |-> I(108 - (i - 1) * 4),
                            w |-> I(3), h |-> <<5, 2>>]]
      [] d = FX_CLASS ->
           [i \in 1..4 |-> [name |-> "legend", kind |-> "legend",
                            x |-> I(5), y |-> I(95 - (i - 1) * 3),
                            w |-> I(2), h |-> I(2)]]
      [] OTHER -> <<>>

\* (x + w/2, y + h/2) of a declared position
BoxCenter(pos) == <<FAdd(I(pos[1]), FDiv(I(pos[3]), I(2))),
                    FAdd(I(pos[2]), FDiv(I(pos[4]), I(2)))>>

ReducePoint(p) == [status |-> p.status, x |-> Reduce(p.x), y |-> Reduce(p.y)]

\* the two end points computed by create_inheritance, create_composition,
\* create_aggregation and create_association from the declared positions
EdgePoints(a, b) ==
    LET a_pos == class_positions[a]
        b_pos == class_positions[b]
    IN  <<ReducePoint(get_box_edge_point(Q4(a_pos), BoxCenter(b_pos))),
          ReducePoint(get_box_edge_point(Q4(b_pos), BoxCenter(a_pos)))>>

CurrentBox == BoxTable(diagram)[di]

\* the 'type' of each entry of 'classes' in create_class_diagram (academic_diagram_generator.py)
ac_class_types ==
    [ AuthController |-> "controller",
      ClassController |-> "controller",
      SubscriptionController |-> "controller",
      PaymentController |-> "controller",
      AuthService |-> "service",
      SimulatedPaymentService |-> "service",
      TransactionService |-> "service",
      NotificationService |-> "service",
      AuthMiddleware |-> "middleware",
      AdminMiddleware |-> "middleware",
      ErrorHandler |-> "middleware",
      CorsMiddleware |-> "middleware",
      User |-> "model",
      Class |-> "model",
      Session |-> "model",
      Booking |-> "model",
      Subscription |-> "model",
      Package |-> "model",
      Transaction |-> "model",
      SimulatedCard |-> "model" ]

\* get_class_attributes: the class's entry in the map chosen by its type,
\* or the default pair
get_class_attributes(class_name, class_type) ==
    LET attributes_map ==
            IF class_type = "model"
            THEN
                [ User |-> <<"-id: number", "-email: string", "-role: UserRole">>,
                  Class |-> <<"-id: number", "-name: string", "-description: string">>,
                  Session |-> <<"-id: number", "-timeSlot: string", "-capacity: number">>,
                  Booking |-> <<"-id: number", "-userId: number", "-sessionId: number">>,
                  Subscription |-> <<"-id: number", "-status: string", "-packageId: number">>,
                  Package |-> <<"-id: number", "-name: string", "-price: number">>,
                  Transaction |-> <<"-id: number", "-amount: number", "-status: string">>,
                  SimulatedCard |-> <<"-cardNumber: string", "-balance: number", "-isValid: boolean">> ]
            ELSE
                [ AuthController |-> <<"-authService: AuthService", "-logger: Logger">>,
                  ClassController |-> <<"-classService: ClassService", "-validator: Validator">>,
                  SubscriptionController |-> <<"-subscriptionService: Service", "-transactionService: Service">>,
                  PaymentController |-> <<"-paymentService: PaymentService", "-cardValidator: Validator">> ]
    IN  IF class_name \in DOMAIN attributes_map
        THEN attributes_map[class_name]
        ELSE <<"-attribute1: type", "-attribute2: type">>

\* get_class_methods: the class's entry in methods_map, or the default pair
get_class_methods(class_name, class_type) ==
    LET methods_map ==
            [ AuthController |-> <<"+login(): Response", "+register(): Response", "+getProfile(): Response">>,
              ClassController |-> <<"+getClasses(): Response", "+createClass(): Response", "+updateClass(): Response">>,
              SubscriptionController |-> <<"+createSubscription(): Response", "+switchPackage(): Response", "+getPackages(): Response">>,
              PaymentController |-> <<"+processPayment(): Response", "+validateCard(): Response", "+getTestCards(): Response">>,
              AuthService |-> <<"+authenticate(): boolean", "+generateToken(): string", "+hashPassword(): string">>,
              SimulatedPaymentService |-> <<"+processPayment(): PaymentResult", "+validateCard(): boolean", "+getTestCards(): Card[]">>,
              TransactionService |-> <<"+logTransaction(): void", "+getTransactions(): Transaction[]", "+logActivity(): void">>,
              NotificationService |-> <<"+sendEmail(): void", "+sendSMS(): void", "+pushNotification(): void">>,
              AuthMiddleware |-> <<"+authenticate(): void", "+extractToken(): string", "+verifyUser(): boolean">>,
              AdminMiddleware |-> <<"+requireAdmin(): void", "+checkPermissions(): boolean">>,
              ErrorHandler |-> <<"+handleError(): void", "+logError(): void", "+formatResponse(): Response">>,
              CorsMiddleware |-> <<"+setCorsHeaders(): void", "+validateOrigin(): boolean">> ]
            
    IN  IF class_name \in DOMAIN methods_map
        THEN methods_map[class_name]
        ELSE <<"+method1(): type", "+method2(): type">>

\* the attribute and method lines draw_uml_class writes into the box of
\* class c: the first three of each list, line i at start_y - i * 2.5, the
\* attributes starting one unit below the upper separator, the methods one
\* unit below the lower one
draw_uml_class_texts(c) ==
    LET y == I(ac_classes[c][2])
        height == I(ac_classes[c][4])
        all_attributes == get_class_attributes(c, ac_class_types[c])
        all_methods == get_class_methods(c, ac_class_types[c])
        attributes == SubSeq(all_attributes, 1,
                             IF Len(all_attributes) < 3 THEN Len(all_attributes) ELSE 3)
        methods == SubSeq(all_methods, 1,
                          IF Len(all_methods) < 3 THEN Len(all_methods) ELSE 3)
        attr_start_y == FSub(FAdd(y, FDiv(height, I(6))), I(1))
        methods_start_y == FSub(FSub(y, FDiv(height, I(6))), I(1))
    IN  [i \in 1..Len(attributes) |->
            [class |-> c, section |-> "attribute", index |-> i - 1,
             y |-> Reduce(FSub(attr_start_y, FMul(I(i - 1), <<25, 10>>))),
             text |-> attributes[i]]]
        \o
        [i \in 1..Len(methods) |->
            [class |-> c, section |-> "method", index |-> i - 1,
             y |-> Reduce(FSub(methods_start_y, FMul(I(i - 1), <<25, 10>>))),
             text |-> methods[i]]]

StartDrawing(d) ==
    /\ dpc = "idle"
    /\ diagram' = d
    /\ dpc' = "boxes"
    /\ di' = 1
    /\ box_keys' = IF GuardFilledByLoop(d) THEN {} ELSE Range(BoxTable(d))
    /\ UNCHANGED <<dj, rects, separators, texts, rel_lines, skipped, gvars, rvars, svars, tvars>>

\* one iteration of the loop over the box table, up to the text lines of
\* create_class_box; draw_uml_class, called whole, writes its text lines too
DrawBox ==
    /\ dpc = "boxes"
    /\ di <= Len(BoxTable(diagram))
    /\ rects' = IF HasGeometry(diagram)
                THEN Append(rects, ClassRect(diagram, CurrentBox)) ELSE rects
    /\ box_keys' = box_keys \cup {CurrentBox}
    /\ separators' = IF diagram = PU_CLASS
                     THEN separators \o SeparatorLines(CurrentBox) ELSE separators
    /\ IF diagram = PU_CLASS /\ Len(Attributes(CurrentBox)) > 0
       THEN dpc' = "attributes" /\ dj' = 1 /\ di' = di
       ELSE IF diagram = PU_CLASS /\ Len(Methods(CurrentBox)) > 0
       THEN dpc' = "methods" /\ dj' = 1 /\ di' = di
       ELSE dpc' = "boxes" /\ dj' = 0 /\ di' = di + 1
    /\ texts' = IF diagram = AC_CLASS
                THEN texts \o draw_uml_class_texts(CurrentBox) ELSE texts
    /\ UNCHANGED <<diagram, rel_lines, skipped, gvars, rvars, svars, tvars>>

\* one iteration of 'for i, attr in enumerate(attributes)'
PlaceAttribute ==
    /\ dpc = "attributes"
    /\ texts' = Append(texts, [class |-> CurrentBox, section |-> "attribute",
                               index |-> dj - 1, y |-> attr_y(CurrentBox, dj - 1)])
    /\ IF dj < Len(Attributes(CurrentBox))
       THEN dpc' = "attributes" /\ dj' = dj + 1 /\ di' = di
       ELSE IF Len(Methods(CurrentBox)) > 0
       THEN dpc' = "methods" /\ dj' = 1 /\ di' = di
       ELSE dpc' = "boxes" /\ dj' = 0 /\ di' = di + 1
    /\ UNCHANGED <<diagram, box_keys, rects, separators, rel_lines, skipped, gvars, rvars, svars, tvars>>

\* one iteration of 'for i, method in enumerate(methods)'
PlaceMethod ==
    /\ dpc = "methods"
    /\ texts' = Append(texts, [class |-> CurrentBox, section |-> "method",
                               index |-> dj - 1, y |-> method_y(CurrentBox, dj - 1)])
    /\ IF dj < Len(Methods(CurrentBox))
       THEN dpc' = "methods" /\ dj' = dj + 1 /\ di' = di
       ELSE dpc' = "boxes" /\ dj' = 0 /\ di' = di + 1
    /\ UNCHANGED <<diagram, box_keys, rects, separators, rel_lines, skipped, gvars, rvars, svars, tvars>>

\* the loop over the box table is exhausted
EndBoxes ==
    /\ dpc = "boxes"
    /\ di > Len(BoxTable(diagram))
    /\ dpc' = "relationships"
    /\ di' = 1
    /\ UNCHANGED <<diagram, dj, box_keys, rects, separators, texts, rel_lines, skipped,
                   gvars, rvars, svars, tvars>>

\* one entry of the relationship table: the line is plotted when both names
\* are keys of the guard's dictionary; an unguarded lookup of a missing key
\* raises KeyError. The end points are computed for the UML class diagram.
DrawRelationship ==
    /\ dpc = "relationships"
    /\ di <= Len(RelationshipTable(diagram))
    /\ LET a == RelationshipTable(diagram)[di][1]
           b == RelationshipTable(diagram)[di][2]
           ends == IF diagram = PU_CLASS THEN EdgePoints(a, b) ELSE <<>>
       IN  IF a \in box_keys /\ b \in box_keys
           THEN IF diagram = PU_CLASS /\ \E k \in 1..2 : ends[k].status # "ok"
                THEN /\ dpc' = "ZeroDivisionError"
                     /\ UNCHANGED <<di, rel_lines, skipped>>
                ELSE /\ rel_lines' = Append(rel_lines, [from |-> a, to |-> b, ends |-> ends])
                     /\ di' = di + 1
                     /\ UNCHANGED <<dpc, skipped>>
           ELSE IF HasGuard(diagram)
                THEN /\ skipped' = Append(skipped, <<a, b>>)
                     /\ di' = di + 1
                     /\ UNCHANGED <<dpc, rel_lines>>
                ELSE /\ dpc' = "KeyError"
                     /\ UNCHANGED <<di, rel_lines, skipped>>
    /\ UNCHANGED <<diagram, dj, box_keys, rects, separators, texts, gvars, rvars, svars, tvars>>

\* the relationship table is exhausted: the legend is added
AddLegend ==
    /\ dpc = "relationships"
    /\ di > Len(RelationshipTable(diagram))
    /\ rects' = rects \o LegendRects(diagram)
    /\ dpc' = "done"
    /\ UNCHANGED <<diagram, di, dj, box_keys, separators, texts, rel_lines, skipped,
                   gvars, rvars, svars, tvars>>

InitDraw ==
    /\ GeomIdle
    /\ RunIdle
    /\ DrawIdle
    /\ SeqIdle
    /\ TextIdle
    /\ dirExists = FALSE
    /\ fs = EmptyFs

NextDraw ==
    \/ \E d \in DrawnDiagrams : StartDrawing(d)
    \/ DrawBox
    \/ PlaceAttribute
    \/ PlaceMethod
    \/ EndBoxes
    \/ DrawRelationship
    \/ AddLegend

SpecDraw == InitDraw /\ [][NextDraw]_vars

(***************************************************************************)
(* The drawing of one sequence diagram: a lifeline per declared actor,     *)
(* then an arrow per declared message.  SpecSeq draws each sequence        *)
(* diagram of the six scripts that have one.                               *)
(***************************************************************************)

\* faulty variant: the two returns after the second query are interchanged,
\* so Auth Service answers Web App while its own query is still open
ga_registration_interactions_crossed ==
    << [from |-> "User", to |-> "Web App", type |-> "sync"],
       [from |-> "Web App", to |-> "Auth Service", type |-> "sync"],
       [from |-> "Auth Service", to |-> "Database", type |-> "sync"],
       [from |-> "Database", to |-> "Auth Service", type |-> "return"],
       [from |-> "Auth Service", to |-> "Database", type |-> "sync"],
       [from |-> "Auth Service", to |-> "Web App", type |-> "return"],
       [from |-> "Database", to |-> "Auth Service", type |-> "return"],
       [from |-> "Web App", to |-> "User", type |-> "sync"] >>

\* the interactions of generate_all_sequence_diagrams (generate_all_diagrams.py, line 681), in order
ga_registration_interactions ==
    << [from |-> "User", to |-> "Web App", type |-> "sync"],
       [from |-> "Web App", to |-> "Auth Service", type |-> "sync"],
       [from |-> "Auth Service", to |-> "Database", type |-> "sync"],
       [from |-> "Database", to |-> "Auth Service", type |-> "return"],
       [from |-> "Auth Service", to |-> "Database", type |-> "sync"],
       [from |-> "Database", to |-> "Auth Service", type |-> "return"],
       [from |-> "Auth Service", to |-> "Web App", type |-> "return"],
       [from |-> "Web App", to |-> "User", type |-> "sync"] >>

\* the actors each sequence diagram declares, in order: names in
\* generate_all_diagrams.py, names with their x elsewhere
SeqActors(d) ==
    CASE d = "generate_all_diagrams.registration_sequence" ->
           << "User",
              "Web App",
              "Auth Service",
              "Database" >>
      [] d = "generate_all_diagrams.booking_sequence" ->
           << "Member",
              "Web App",
              "Booking Service",
              "Payment Service",
              "Database" >>
      [] d = "generate_all_diagrams.subscription_sequence" ->
           << "Member",
              "Web App",
              "Subscription Service",
              "Billing System",
              "Database" >>
      [] d = "academic_diagram_generator.create_sequence_diagram" ->
           << [name |-> "User", x |-> <<15, 1>>],
              [name |-> "React Frontend", x |-> <<30, 1>>],
              [name |-> "Auth Middleware", x |-> <<45, 1>>],
              [name |-> "Session Controller", x |-> <<60, 1>>],
              [name |-> "Prisma ORM", x |-> <<75, 1>>],
              [name |-> "PostgreSQL DB", x |-> <<90, 1>>],
              [name |-> "Payment Service", x |-> <<105, 1>>] >>
      [] d = "fixed_diagram_generator.create_sequence_diagram" ->
           << [name |-> "User", x |-> <<10, 1>>],
              [name |-> "Frontend", x |-> <<25, 1>>],
              [name |-> "AuthMiddleware", x |-> <<40, 1>>],
              [name |-> "SessionController", x |-> <<55, 1>>],
              [name |-> "Database", x |-> <<70, 1>>],
              [name |-> "PaymentService", x |-> <<85, 1>>] >>
      [] d = "improved_diagram_generator.generate_sequence_diagram" ->
           << [name |-> "User", x |-> <<2, 1>>],
              [name |-> "Frontend", x |-> <<55, 10>>],
              [name |-> "AuthController", x |-> <<9, 1>>],
              [name |-> "SubscriptionService", x |-> <<125, 10>>],
              [name |-> "PaymentService", x |-> <<16, 1>>],
              [name |-> "Database", x |-> <<185, 10>>] >>
      [] d = "advanced_sequence_diagrams.generate_user_registration_sequence" ->
           << [name |-> "User", x |-> <<10, 1>>],
              [name |-> "Frontend", x |-> <<25, 1>>],
              [name |-> "AuthController", x |-> <<45, 1>>],
              [name |-> "Prisma ORM", x |-> <<65, 1>>],
              [name |-> "PostgreSQL", x |-> <<85, 1>>] >>
      [] d = "advanced_sequence_diagrams.generate_booking_sequence" ->
           << [name |-> "Member", x |-> <<10, 1>>],
              [name |-> "Frontend", x |-> <<25, 1>>],
              [name |-> "BookingController", x |-> <<45, 1>>],
              [name |-> "SessionController", x |-> <<65, 1>>],
              [name |-> "Prisma ORM", x |-> <<85, 1>>],
              [name |-> "Database", x |-> <<105, 1>>] >>
      [] d = "advanced_sequence_diagrams.generate_subscription_sequence" ->
           << [name |-> "Member", x |-> <<10, 1>>],
              [name |-> "Frontend", x |-> <<25, 1>>],
              [name |-> "SubscriptionController", x |-> <<45, 1>>],
              [name |-> "PaymentController", x |-> <<70, 1>>],
              [name |-> "SimulatedPayment", x |-> <<95, 1>>],
              [name |-> "Database", x |-> <<115, 1>>] >>
      [] d = "sequence_diagram_generator.generate_user_registration_sequence" ->
           << [name |-> "User", x |-> <<2, 1>>],
              [name |-> "Frontend (React)", x |-> <<5, 1>>],
              [name |-> "AuthController", x |-> <<8, 1>>],
              [name |-> "AuthService", x |-> <<11, 1>>],
              [name |-> "Database (PostgreSQL)", x |-> <<14, 1>>] >>
      [] d = "sequence_diagram_generator.generate_class_booking_sequence" ->
           << [name |-> "Member", x |-> <<2, 1>>],
              [name |-> "React Frontend", x |-> <<45, 10>>],
              [name |-> "AuthMiddleware", x |-> <<7, 1>>],
              [name |-> "SessionController", x |-> <<95, 10>>],
              [name |-> "SubscriptionService", x |-> <<12, 1>>],
              [name |-> "Database", x |-> <<145, 10>>],
              [name |-> "NotificationService", x |-> <<17, 1>>] >>
      [] d = "sequence_diagram_generator.generate_subscription_sequence" ->
           << [name |-> "User", x |-> <<2, 1>>],
              [name |-> "Frontend", x |-> <<45, 10>>],
              [name |-> "SubscriptionController", x |-> <<75, 10>>],
              [name |-> "PaymentService", x |-> <<105, 10>>],
              [name |-> "Database", x |-> <<135, 10>>] >>

\* the messages each sequence diagram declares, in order; a message names
\* its sender and receiver by actor name (generate_all_diagrams, academic,
\* fixed), by 0-based index into the actors (improved) or by x (advanced,
\* sequence_diagram_generator)
SeqMessages(d) ==
    CASE d = "generate_all_diagrams.registration_sequence" ->
           ga_registration_interactions
      [] d = "generate_all_diagrams.booking_sequence" ->
           << [from |-> "Member", to |-> "Web App", type |-> "sync"],
              [from |-> "Web App", to |-> "Booking Service", type |-> "sync"],
              [from |-> "Booking Service", to |-> "Database", type |-> "sync"],
              [from |-> "Database", to |-> "Booking Service", type |-> "return"],
              [from |-> "Booking Service", to |-> "Payment Service", type |-> "sync"],
              [from |-> "Payment Service", to |-> "Booking Service", type |-> "return"],
              [from |-> "Booking Service", to |-> "Database", type |-> "sync"],
              [from |-> "Database", to |-> "Booking Service", type |-> "return"],
              [from |-> "Booking Service", to |-> "Web App", type |-> "return"],
              [from |-> "Web App", to |-> "Member", type |-> "sync"] >>
      [] d = "generate_all_diagrams.subscription_sequence" ->
           << [from |-> "Member", to |-> "Web App", type |-> "sync"],
              [from |-> "Web App", to |-> "Subscription Service", type |-> "sync"],
              [from |-> "Subscription Service", to |-> "Billing System", type |-> "sync"],
              [from |-> "Billing System", to |-> "Subscription Service", type |-> "return"],
              [from |-> "Subscription Service", to |-> "Database", type |-> "sync"],
              [from |-> "Database", to |-> "Subscription Service", type |-> "return"],
              [from |-> "Subscription Service", to |-> "Web App", type |-> "return"],
              [from |-> "Web App", to |-> "Member", type |-> "sync"] >>
      [] d = "academic_diagram_generator.create_sequence_diagram" ->
           << [from |-> "User", to |-> "React Frontend", y |-> <<85, 1>>, type |-> "sync"],
              [from |-> "React Frontend", to |-> "Auth Middleware", y |-> <<80, 1>>, type |-> "sync"],
              [from |-> "Auth Middleware", to |-> "PostgreSQL DB", y |-> <<75, 1>>, type |-> "sync"],
              [from |-> "PostgreSQL DB", to |-> "Auth Middleware", y |-> <<70, 1>>, type |-> "return"],
              [from |-> "Auth Middleware", to |-> "React Frontend", y |-> <<65, 1>>, type |-> "return"],
              [from |-> "React Frontend", to |-> "User", y |-> <<60, 1>>, type |-> "return"],
              [from |-> "User", to |-> "React Frontend", y |-> <<50, 1>>, type |-> "sync"],
              [from |-> "React Frontend", to |-> "Session Controller", y |-> <<45, 1>>, type |-> "sync"],
              [from |-> "Session Controller", to |-> "Prisma ORM", y |-> <<40, 1>>, type |-> "sync"],
              [from |-> "Prisma ORM", to |-> "PostgreSQL DB", y |-> <<35, 1>>, type |-> "sync"],
              [from |-> "PostgreSQL DB", to |-> "Prisma ORM", y |-> <<30, 1>>, type |-> "return"],
              [from |-> "Session Controller", to |-> "Prisma ORM", y |-> <<25, 1>>, type |-> "sync"],
              [from |-> "Session Controller", to |-> "React Frontend", y |-> <<20, 1>>, type |-> "return"],
              [from |-> "React Frontend", to |-> "User", y |-> <<15, 1>>, type |-> "return"] >>
      [] d = "fixed_diagram_generator.create_sequence_diagram" ->
           << [from |-> "User", to |-> "Frontend", y |-> <<85, 1>>, type |-> "plain"],
              [from |-> "Frontend", to |-> "AuthMiddleware", y |-> <<80, 1>>, type |-> "plain"],
              [from |-> "AuthMiddleware", to |-> "Database", y |-> <<75, 1>>, type |-> "plain"],
              [from |-> "Database", to |-> "AuthMiddleware", y |-> <<70, 1>>, type |-> "plain"],
              [from |-> "AuthMiddleware", to |-> "Frontend", y |-> <<65, 1>>, type |-> "plain"],
              [from |-> "Frontend", to |-> "User", y |-> <<60, 1>>, type |-> "plain"],
              [from |-> "User", to |-> "Frontend", y |-> <<50, 1>>, type |-> "plain"],
              [from |-> "Frontend", to |-> "SessionController", y |-> <<45, 1>>, type |-> "plain"],
              [from |-> "SessionController", to |-> "Database", y |-> <<40, 1>>, type |-> "plain"],
              [from |-> "Database", to |-> "SessionController", y |-> <<35, 1>>, type |-> "plain"],
              [from |-> "SessionController", to |-> "Database", y |-> <<30, 1>>, type |-> "plain"],
              [from |-> "Database", to |-> "SessionController", y |-> <<25, 1>>, type |-> "plain"],
              [from |-> "SessionController", to |-> "Frontend", y |-> <<20, 1>>, type |-> "plain"],
              [from |-> "Frontend", to |-> "User", y |-> <<15, 1>>, type |-> "plain"] >>
      [] d = "improved_diagram_generator.generate_sequence_diagram" ->
           << [from |-> 0, to |-> 1, y |-> <<11, 1>>, type |-> "sync"],
              [from |-> 1, to |-> 2, y |-> <<105, 10>>, type |-> "sync"],
              [from |-> 2, to |-> 5, y |-> <<10, 1>>, type |-> "sync"],
              [from |-> 5, to |-> 2, y |-> <<95, 10>>, type |-> "return"],
              [from |-> 2, to |-> 1, y |-> <<9, 1>>, type |-> "return"],
              [from |-> 1, to |-> 3, y |-> <<85, 10>>, type |-> "sync"],
              [from |-> 3, to |-> 5, y |-> <<8, 1>>, type |-> "sync"],
              [from |-> 5, to |-> 3, y |-> <<75, 10>>, type |-> "return"],
              [from |-> 3, to |-> 4, y |-> <<7, 1>>, type |-> "sync"],
              [from |-> 4, to |-> 5, y |-> <<65, 10>>, type |-> "sync"],
              [from |-> 5, to |-> 4, y |-> <<6, 1>>, type |-> "return"],
              [from |-> 4, to |-> 3, y |-> <<55, 10>>, type |-> "return"],
              [from |-> 3, to |-> 5, y |-> <<5, 1>>, type |-> "sync"],
              [from |-> 3, to |-> 1, y |-> <<45, 10>>, type |-> "return"],
              [from |-> 1, to |-> 0, y |-> <<4, 1>>, type |-> "return"] >>
      [] d = "advanced_sequence_diagrams.generate_user_registration_sequence" ->
           << [from |-> <<10, 1>>, to |-> <<25, 1>>, y |-> <<50, 1>>, type |-> "sync"],
              [from |-> <<25, 1>>, to |-> <<45, 1>>, y |-> <<47, 1>>, type |-> "sync"],
              [from |-> <<45, 1>>, to |-> <<45, 1>>, y |-> <<44, 1>>, type |-> "self"],
              [from |-> <<45, 1>>, to |-> <<65, 1>>, y |-> <<41, 1>>, type |-> "sync"],
              [from |-> <<45, 1>>, to |-> <<65, 1>>, y |-> <<38, 1>>, type |-> "sync"],
              [from |-> <<65, 1>>, to |-> <<85, 1>>, y |-> <<35, 1>>, type |-> "sync"],
              [from |-> <<85, 1>>, to |-> <<65, 1>>, y |-> <<32, 1>>, type |-> "return"],
              [from |-> <<65, 1>>, to |-> <<45, 1>>, y |-> <<29, 1>>, type |-> "return"],
              [from |-> <<45, 1>>, to |-> <<25, 1>>, y |-> <<26, 1>>, type |-> "return"],
              [from |-> <<25, 1>>, to |-> <<10, 1>>, y |-> <<23, 1>>, type |-> "sync"] >>
      [] d = "advanced_sequence_diagrams.generate_booking_sequence" ->
           << [from |-> <<10, 1>>, to |-> <<25, 1>>, y |-> <<60, 1>>, type |-> "sync"],
              [from |-> <<25, 1>>, to |-> <<45, 1>>, y |-> <<57, 1>>, type |-> "sync"],
              [from |-> <<45, 1>>, to |-> <<65, 1>>, y |-> <<54, 1>>, type |-> "sync"],
              [from |-> <<65, 1>>, to |-> <<85, 1>>, y |-> <<51, 1>>, type |-> "sync"],
              [from |-> <<85, 1>>, to |-> <<105, 1>>, y |-> <<48, 1>>, type |-> "sync"],
              [from |-> <<105, 1>>, to |-> <<85, 1>>, y |-> <<45, 1>>, type |-> "return"],
              [from |-> <<85, 1>>, to |-> <<65, 1>>, y |-> <<42, 1>>, type |-> "return"],
              [from |-> <<65, 1>>, to |-> <<45, 1>>, y |-> <<39, 1>>, type |-> "return"],
              [from |-> <<45, 1>>, to |-> <<25, 1>>, y |-> <<36, 1>>, type |-> "return"],
              [from |-> <<25, 1>>, to |-> <<10, 1>>, y |-> <<33, 1>>, type |-> "sync"],
              [from |-> <<10, 1>>, to |-> <<25, 1>>, y |-> <<28, 1>>, type |-> "sync"],
              [from |-> <<25, 1>>, to |-> <<45, 1>>, y |-> <<25, 1>>, type |-> "sync"],
              [from |-> <<45, 1>>, to |-> <<65, 1>>, y |-> <<22, 1>>, type |-> "sync"],
              [from |-> <<65, 1>>, to |-> <<85, 1>>, y |-> <<19, 1>>, type |-> "sync"],
              [from |-> <<85, 1>>, to |-> <<65, 1>>, y |-> <<16, 1>>, type |-> "return"],
              [from |-> <<45, 1>>, to |-> <<85, 1>>, y |-> <<13, 1>>, type |-> "sync"],
              [from |-> <<85, 1>>, to |-> <<105, 1>>, y |-> <<10, 1>>, type |-> "sync"],
              [from |-> <<105, 1>>, to |-> <<85, 1>>, y |-> <<7, 1>>, type |-> "return"],
              [from |-> <<85, 1>>, to |-> <<45, 1>>, y |-> <<4, 1>>, type |-> "return"],
              [from |-> <<45, 1>>, to |-> <<25, 1>>, y |-> <<1, 1>>, type |-> "return"] >>
      [] d = "advanced_sequence_diagrams.generate_subscription_sequence" ->
           << [from |-> <<10, 1>>, to |-> <<25, 1>>, y |-> <<70, 1>>, type |-> "sync"],
              [from |-> <<25, 1>>, to |-> <<45, 1>>, y |-> <<67, 1>>, type |-> "sync"],
              [from |-> <<45, 1>>, to |-> <<115, 1>>, y |-> <<64, 1>>, type |-> "sync"],
              [from |-> <<115, 1>>, to |-> <<45, 1>>, y |-> <<61, 1>>, type |-> "return"],
              [from |-> <<45, 1>>, to |-> <<25, 1>>, y |-> <<58, 1>>, type |-> "return"],
              [from |-> <<25, 1>>, to |-> <<10, 1>>, y |-> <<55, 1>>, type |-> "sync"],
              [from |-> <<10, 1>>, to |-> <<25, 1>>, y |-> <<50, 1>>, type |-> "sync"],
              [from |-> <<25, 1>>, to |-> <<45, 1>>, y |-> <<47, 1>>, type |-> "sync"],
              [from |-> <<45, 1>>, to |-> <<115, 1>>, y |-> <<44, 1>>, type |-> "sync"],
              [from |-> <<115, 1>>, to |-> <<45, 1>>, y |-> <<41, 1>>, type |-> "return"],
              [from |-> <<45, 1>>, to |-> <<115, 1>>, y |-> <<38, 1>>, type |-> "sync"],
              [from |-> <<115, 1>>, to |-> <<45, 1>>, y |-> <<35, 1>>, type |-> "return"],
              [from |-> <<45, 1>>, to |-> <<70, 1>>, y |-> <<32, 1>>, type |-> "sync"],
              [from |-> <<70, 1>>, to |-> <<95, 1>>, y |-> <<29, 1>>, type |-> "sync"],
              [from |-> <<95, 1>>, to |-> <<95, 1>>, y |-> <<26, 1>>, type |-> "self"],
              [from |-> <<95, 1>>, to |-> <<115, 1>>, y |-> <<23, 1>>, type |-> "sync"],
              [from |-> <<95, 1>>, to |-> <<70, 1>>, y |-> <<20, 1>>, type |-> "return"],
              [from |-> <<70, 1>>, to |-> <<45, 1>>, y |-> <<17, 1>>, type |-> "sync"],
              [from |-> <<45, 1>>, to |-> <<115, 1>>, y |-> <<14, 1>>, type |-> "sync"],
              [from |-> <<115, 1>>, to |-> <<45, 1>>, y |-> <<11, 1>>, type |-> "return"],
              [from |-> <<45, 1>>, to |-> <<25, 1>>, y |-> <<8, 1>>, type |-> "return"],
              [from |-> <<25, 1>>, to |-> <<10, 1>>, y |-> <<5, 1>>, type |-> "sync"] >>
      [] d = "sequence_diagram_generator.generate_user_registration_sequence" ->
           << [from |-> <<2, 1>>, to |-> <<5, 1>>, y |-> <<85, 10>>, type |-> "sync"],
              [from |-> <<5, 1>>, to |-> <<5, 1>>, y |-> <<82, 10>>, type |-> "self"],
              [from |-> <<5, 1>>, to |-> <<8, 1>>, y |-> <<78, 10>>, type |-> "sync"],
              [from |-> <<8, 1>>, to |-> <<8, 1>>, y |-> <<75, 10>>, type |-> "self"],
              [from |-> <<8, 1>>, to |-> <<11, 1>>, y |-> <<71, 10>>, type |-> "sync"],
              [from |-> <<11, 1>>, to |-> <<8, 1>>, y |-> <<68, 10>>, type |-> "return"],
              [from |-> <<8, 1>>, to |-> <<14, 1>>, y |-> <<64, 10>>, type |-> "sync"],
              [from |-> <<14, 1>>, to |-> <<8, 1>>, y |-> <<61, 10>>, type |-> "return"],
              [from |-> <<8, 1>>, to |-> <<11, 1>>, y |-> <<57, 10>>, type |-> "sync"],
              [from |-> <<11, 1>>, to |-> <<8, 1>>, y |-> <<54, 10>>, type |-> "return"],
              [from |-> <<8, 1>>, to |-> <<5, 1>>, y |-> <<5, 1>>, type |-> "return"],
              [from |-> <<5, 1>>, to |-> <<2, 1>>, y |-> <<46, 10>>, type |-> "return"],
              [from |-> <<2, 1>>, to |-> <<5, 1>>, y |-> <<42, 10>>, type |-> "sync"] >>
      [] d = "sequence_diagram_generator.generate_class_booking_sequence" ->
           << [from |-> <<2, 1>>, to |-> <<45, 10>>, y |-> <<105, 10>>, type |-> "sync"],
              [from |-> <<45, 10>>, to |-> <<45, 10>>, y |-> <<102, 10>>, type |-> "self"],
              [from |-> <<45, 10>>, to |-> <<95, 10>>, y |-> <<98, 10>>, type |-> "sync"],
              [from |-> <<95, 10>>, to |-> <<7, 1>>, y |-> <<94, 10>>, type |-> "sync"],
              [from |-> <<7, 1>>, to |-> <<95, 10>>, y |-> <<91, 10>>, type |-> "return"],
              [from |-> <<95, 10>>, to |-> <<12, 1>>, y |-> <<87, 10>>, type |-> "sync"],
              [from |-> <<12, 1>>, to |-> <<145, 10>>, y |-> <<83, 10>>, type |-> "sync"],
              [from |-> <<145, 10>>, to |-> <<12, 1>>, y |-> <<8, 1>>, type |-> "return"],
              [from |-> <<12, 1>>, to |-> <<12, 1>>, y |-> <<76, 10>>, type |-> "self"],
              [from |-> <<12, 1>>, to |-> <<95, 10>>, y |-> <<72, 10>>, type |-> "return"],
              [from |-> <<95, 10>>, to |-> <<145, 10>>, y |-> <<68, 10>>, type |-> "sync"],
              [from |-> <<145, 10>>, to |-> <<95, 10>>, y |-> <<65, 10>>, type |-> "return"],
              [from |-> <<95, 10>>, to |-> <<145, 10>>, y |-> <<61, 10>>, type |-> "sync"],
              [from |-> <<145, 10>>, to |-> <<145, 10>>, y |-> <<58, 10>>, type |-> "self"],
              [from |-> <<145, 10>>, to |-> <<95, 10>>, y |-> <<54, 10>>, type |-> "return"],
              [from |-> <<95, 10>>, to |-> <<17, 1>>, y |-> <<5, 1>>, type |-> "async"],
              [from |-> <<95, 10>>, to |-> <<45, 10>>, y |-> <<46, 10>>, type |-> "return"],
              [from |-> <<45, 10>>, to |-> <<2, 1>>, y |-> <<42, 10>>, type |-> "return"],
              [from |-> <<17, 1>>, to |-> <<2, 1>>, y |-> <<38, 10>>, type |-> "async"] >>
      [] d = "sequence_diagram_generator.generate_subscription_sequence" ->
           << [from |-> <<2, 1>>, to |-> <<45, 10>>, y |-> <<85, 10>>, type |-> "sync"],
              [from |-> <<45, 10>>, to |-> <<75, 10>>, y |-> <<81, 10>>, type |-> "sync"],
              [from |-> <<75, 10>>, to |-> <<135, 10>>, y |-> <<77, 10>>, type |-> "sync"],
              [from |-> <<135, 10>>, to |-> <<75, 10>>, y |-> <<74, 10>>, type |-> "return"],
              [from |-> <<75, 10>>, to |-> <<105, 10>>, y |-> <<7, 1>>, type |-> "sync"],
              [from |-> <<105, 10>>, to |-> <<105, 10>>, y |-> <<66, 10>>, type |-> "self"],
              [from |-> <<105, 10>>, to |-> <<105, 10>>, y |-> <<63, 10>>, type |-> "self"],
              [from |-> <<105, 10>>, to |-> <<75, 10>>, y |-> <<59, 10>>, type |-> "return"],
              [from |-> <<75, 10>>, to |-> <<135, 10>>, y |-> <<55, 10>>, type |-> "sync"],
              [from |-> <<135, 10>>, to |-> <<135, 10>>, y |-> <<52, 10>>, type |-> "self"],
              [from |-> <<135, 10>>, to |-> <<75, 10>>, y |-> <<48, 10>>, type |-> "return"],
              [from |-> <<75, 10>>, to |-> <<135, 10>>, y |-> <<44, 10>>, type |-> "sync"],
              [from |-> <<135, 10>>, to |-> <<75, 10>>, y |-> <<41, 10>>, type |-> "return"],
              [from |-> <<75, 10>>, to |-> <<45, 10>>, y |-> <<37, 10>>, type |-> "return"],
              [from |-> <<45, 10>>, to |-> <<2, 1>>, y |-> <<33, 10>>, type |-> "return"] >>

SeqDiagrams ==
    {"generate_all_diagrams.registration_sequence",
     "generate_all_diagrams.booking_sequence",
     "generate_all_diagrams.subscription_sequence",
     "academic_diagram_generator.create_sequence_diagram",
     "fixed_diagram_generator.create_sequence_diagram",
     "improved_diagram_generator.generate_sequence_diagram",
     "advanced_sequence_diagrams.generate_user_registration_sequence",
     "advanced_sequence_diagrams.generate_booking_sequence",
     "advanced_sequence_diagrams.generate_subscription_sequence",
     "sequence_diagram_generator.generate_user_registration_sequence",
     "sequence_diagram_generator.generate_class_booking_sequence",
     "sequence_diagram_generator.generate_subscription_sequence"}

\* the script a sequence diagram belongs to
SeqScript(d) ==
    CASE d \in {"generate_all_diagrams.registration_sequence",
                "generate_all_diagrams.booking_sequence",
                "generate_all_diagrams.subscription_sequence"} -> GA
      [] d = "academic_diagram_generator.create_sequence_diagram" -> AC
      [] d = "fixed_diagram_generator.create_sequence_diagram" -> FX
      [] d = "improved_diagram_generator.generate_sequence_diagram" -> IM
      [] d \in {"advanced_sequence_diagrams.generate_user_registration_sequence",
                "advanced_sequence_diagrams.generate_booking_sequence",
                "advanced_sequence_diagrams.generate_subscription_sequence"} -> AD
      [] d \in {"sequence_diagram_generator.generate_user_registration_sequence",
                "sequence_diagram_generator.generate_class_booking_sequence",
                "sequence_diagram_generator.generate_subscription_sequence"} -> SQ

\* the two y values of the ax.plot([x, x], [top, bottom]) call of the lifeline
LifelineSpan(d) ==
    CASE SeqScript(d) = GA -> << <<85, 10>>, I(1) >>
      [] d = "academic_diagram_generator.create_sequence_diagram" -> << I(90), I(15) >>
      [] d = "fixed_diagram_generator.create_sequence_diagram" -> << I(90), I(10) >>
      [] d = "improved_diagram_generator.generate_sequence_diagram" -> << I(12), I(1) >>
      [] d = "advanced_sequence_diagrams.generate_user_registration_sequence" -> << I(55), I(5) >>
      [] d = "advanced_sequence_diagrams.generate_booking_sequence" -> << I(65), I(5) >>
      [] d = "advanced_sequence_diagrams.generate_subscription_sequence" -> << I(75), I(5) >>
      [] d = "sequence_diagram_generator.generate_user_registration_sequence" -> << I(9), I(1) >>
      [] d = "sequence_diagram_generator.generate_class_booking_sequence" -> << I(11), <<15, 10>> >>
      [] d = "sequence_diagram_generator.generate_subscription_sequence" -> << I(9), I(1) >>

\* x = x_start + i * x_spacing in generate_sequence_diagram, the declared x elsewhere
ActorX(d, i) == IF SeqScript(d) = GA THEN I(2 + (i - 1) * 3) ELSE SeqActors(d)[i].x

\* the x of what a message declares as its sender or receiver: the name of an
\* actor (actor_positions[name], actors[name]), a 0-based index into the
\* actors, or the x itself
MessageX(d, ref) ==
    CASE SeqScript(d) = GA ->
           ActorX(d, CHOOSE j \in DOMAIN SeqActors(d) : SeqActors(d)[j] = ref)
      [] SeqScript(d) \in {AC, FX} ->
           ActorX(d, CHOOSE j \in DOMAIN SeqActors(d) : SeqActors(d)[j].name = ref)
      [] SeqScript(d) = IM -> SeqActors(d)[ref + 1].x
      [] OTHER -> ref

\* y_pos starts at 7.5 and drops by 0.8 per interaction; the declared y elsewhere
MessageY(d, k) ==
    IF SeqScript(d) = GA
    THEN Reduce(FSub(<<75, 10>>, FMul(I(k - 1), <<8, 10>>)))
    ELSE SeqMessages(d)[k].y

\* matplotlib: an arrow from posA to posB carries its head at posB for the
\* style '->' and at posA for the style '<-'
FancyArrowPatch(posA, posB, style) ==
    [drawn |-> "arrow",
     head |-> IF style = "->" THEN posB ELSE posA,
     tail |-> IF style = "->" THEN posA ELSE posB]

\* ax.annotate('', xy=..., xytext=...) draws the arrow from xytext to xy
Annotate(xy, xytext, style) == FancyArrowPatch(xytext, xy, style)

\* generate_sequence_diagram of generate_all_diagrams.py
ga_arrow(from_x, to_x, type) ==
    IF type \in {"sync", "async"}
    THEN FancyArrowPatch(from_x, to_x, "->")
    ELSE FancyArrowPatch(to_x, from_x, "<-")

\* create_sequence_diagram of academic_diagram_generator.py; nothing is drawn
\* between an actor and itself
ac_arrow(x1, x2, type) ==
    LET arrow_style == IF type = "return" THEN "<-" ELSE "->"
    IN  IF ~FEq(x1, x2)
        THEN Annotate(IF arrow_style = "->" THEN FSub(x2, I(1)) ELSE FAdd(x2, I(1)),
                      IF arrow_style = "->" THEN FAdd(x1, I(1)) ELSE FSub(x1, I(1)),
                      arrow_style)
        ELSE [drawn |-> "none", head |-> x1, tail |-> x1]

\* create_sequence_diagram of fixed_diagram_generator.py
fx_arrow(x1, x2) ==
    IF FLt(x1, x2)
    THEN Annotate(FSub(x2, I(1)), FAdd(x1, I(1)), "->")
    ELSE Annotate(FAdd(x2, I(1)), FSub(x1, I(1)), "->")

\* generate_sequence_diagram of improved_diagram_generator.py
im_arrow(from_x, to_x, type) ==
    LET arrow_style == IF type = "sync" THEN "->"
                       ELSE IF type = "return" THEN "<-" ELSE "->"
    IN  Annotate(to_x, from_x, arrow_style)

\* create_sequence_message of advanced_sequence_diagrams.py; a self message is
\* a box next to the sender's lifeline with an arrow back to it
create_sequence_message(from_x, to_x, type) ==
    IF type = "self"
    THEN [drawn |-> "self", head |-> from_x, tail |-> FAdd(from_x, I(8))]
    ELSE IF type = "return"
         THEN Annotate(from_x, to_x, "->")
         ELSE Annotate(to_x, from_x, "->")

\* the message loops of sequence_diagram_generator.py; a self message is a
\* loop plotted next to the sender's lifeline; only the booking diagram has a
\* branch for async messages, any other type draws nothing
sq_arrow(d, from_x, to_x, type) ==
    IF type = "self"
    THEN [drawn |-> "self", head |-> from_x, tail |-> from_x]
    ELSE IF \/ type \in {"sync", "return"}
            \/ /\ type = "async"
               /\ d = "sequence_diagram_generator.generate_class_booking_sequence"
         THEN Annotate(to_x, from_x, "->")
         ELSE [drawn |-> "none", head |-> from_x, tail |-> from_x]

\* what the message loop draws for the k-th declared message of d
DrawnMessage(d, k) ==
    LET m == SeqMessages(d)[k]
        from_x == MessageX(d, m.from)
        to_x == MessageX(d, m.to)
        a == CASE SeqScript(d) = GA -> ga_arrow(from_x, to_x, m.type)
               [] SeqScript(d) = AC -> ac_arrow(from_x, to_x, m.type)
               [] SeqScript(d) = FX -> fx_arrow(from_x, to_x)
               [] SeqScript(d) = IM -> im_arrow(from_x, to_x, m.type)
               [] SeqScript(d) = AD -> create_sequence_message(from_x, to_x, m.type)
               [] SeqScript(d) = SQ -> sq_arrow(d, from_x, to_x, m.type)
    IN  [index |-> k, from |-> from_x, to |-> to_x, type |-> m.type,
         y |-> MessageY(d, k), drawn |-> a.drawn,
         head |-> Reduce(a.head), tail |-> Reduce(a.tail)]

\* a generator of a sequence diagram is entered
StartSequence(d) ==
    /\ spc = "idle"
    /\ seq_diagram' = d
    /\ spc' = "actors"
    /\ si' = 1
    /\ UNCHANGED <<lifelines, arrows, gvars, rvars, dvars, tvars>>

\* one pass of the actor loop: the actor's lifeline is plotted
DrawLifeline ==
    /\ spc = "actors"
    /\ si <= Len(SeqActors(seq_diagram))
    /\ lifelines' = Append(lifelines,
                           [x |-> ActorX(seq_diagram, si),
                            top |-> LifelineSpan(seq_diagram)[1],
                            bottom |-> LifelineSpan(seq_diagram)[2]])
    /\ si' = si + 1
    /\ UNCHANGED <<seq_diagram, spc, arrows, gvars, rvars, dvars, tvars>>

\* the actor loop is exhausted; the message table is entered
EndLifelines ==
    /\ spc = "actors"
    /\ si > Len(SeqActors(seq_diagram))
    /\ spc' = "messages"
    /\ si' = 1
    /\ UNCHANGED <<seq_diagram, lifelines, arrows, gvars, rvars, dvars, tvars>>

\* one pass of the message loop
DrawMessage ==
    /\ spc = "messages"
    /\ si <= Len(SeqMessages(seq_diagram))
    /\ arrows' = Append(arrows, DrawnMessage(seq_diagram, si))
    /\ si' = si + 1
    /\ UNCHANGED <<seq_diagram, spc, lifelines, gvars, rvars, dvars, tvars>>

\* the message loop is exhausted; the figure is handed back
EndMessages ==
    /\ spc = "messages"
    /\ si > Len(SeqMessages(seq_diagram))
    /\ spc' = "done"
    /\ UNCHANGED <<seq_diagram, si, lifelines, arrows, gvars, rvars, dvars, tvars>>

NextSeq ==
    \/ \E d \in SeqDiagrams : StartSequence(d)
    \/ DrawLifeline
    \/ EndLifelines
    \/ DrawMessage
    \/ EndMessages

\* every sequence diagram starts from the state of Init: nothing is drawn
SpecSeq == Init /\ [][NextSeq]_vars

(***************************************************************************)
(* The text of one attribute or method line.  A string is the sequence of  *)
(* its characters; the character '.' is written 0 and every other          *)
(* character by a positive number.  SpecText hands one string to one of    *)
(* the four loops that shorten a line before ax.text is called.            *)
(***************************************************************************)

\* faulty variant: the cut keeps 30 characters before the dots
pu_display_long(s) ==
    IF Len(s) <= 30 THEN s ELSE SubSeq(s, 1, 30) \o <<0, 0, 0>>

\* create_class_box, in its attribute loop and again in its method loop:
\* display_attr = attr if len(attr) <= 30 else attr[:27] + "..."
pu_display(s) ==
    IF Len(s) <= 30 THEN s ELSE SubSeq(s, 1, 27) \o <<0, 0, 0>>

\* create_uml_class_box, in its attribute loop and again in its method loop:
\* display_attr = attr if len(attr) <= 28 else attr[:25] + "..."
pd_display(s) ==
    IF Len(s) <= 28 THEN s ELSE SubSeq(s, 1, 25) \o <<0, 0, 0>>

\* the strings of up to MaxTextLen characters, pairwise different but for up
\* to three dots at the end
Texts ==
    {[i \in 1..n |-> IF i > n - k THEN 0 ELSE i] : n \in 0..MaxTextLen, k \in 0..3}

\* one pass of a text loop: the attribute or the method loop of
\* create_class_box or of create_uml_class_box
DisplayLine(loop) ==
    /\ tpc = "input"
    /\ tpc' = loop
    /\ text_limit' = IF loop \in {"create_class_box.attribute",
                                  "create_class_box.method"} THEN 30 ELSE 28
    /\ display_text' = IF loop \in {"create_class_box.attribute",
                                    "create_class_box.method"}
                       THEN pu_display(text) ELSE pd_display(text)
    /\ UNCHANGED <<text, gvars, rvars, dvars, svars>>

InitText ==
    /\ GeomIdle
    /\ RunIdle
    /\ DrawIdle
    /\ SeqIdle
    /\ dirExists = FALSE
    /\ fs = EmptyFs
    /\ tpc = "input"
    /\ text \in Texts
    /\ text_limit = 0
    /\ display_text = <<>>

NextText ==
    \E loop \in {"create_class_box.attribute", "create_class_box.method",
                 "create_uml_class_box.attribute", "create_uml_class_box.method"} :
        DisplayLine(loop)

SpecText == InitText /\ [][NextText]_vars

(***************************************************************************)
(* Properties of get_box_edge_point (checked under SpecGeom)               *)
(***************************************************************************)
BoxX == box_pos[1]
BoxY == box_pos[2]
BoxW == box_pos[3]
BoxH == box_pos[4]
CenterX == <<2 * BoxX + BoxW, 2>>
CenterY == <<2 * BoxY + BoxH, 2>>
TargetX == I(target_point[1])
TargetY == I(target_point[2])

PositiveBox == BoxW > 0 /\ BoxH > 0
TargetOffCenter == ~(FEq(TargetX, CenterX) /\ FEq(TargetY, CenterY))
Computed == gpc = "computed"

\* e is on the left or right edge, within the edge's vertical span
OnSideEdge(e) ==
    /\ FEq(e.x, I(BoxX)) \/ FEq(e.x, I(BoxX + BoxW))
    /\ FLe(I(BoxY), e.y)
    /\ FLe(e.y, I(BoxY + BoxH))

\* e is on the top or bottom edge, within the edge's horizontal span
OnTopBottomEdge(e) ==
    /\ FEq(e.y, I(BoxY)) \/ FEq(e.y, I(BoxY + BoxH))
    /\ FLe(I(BoxX), e.x)
    /\ FLe(e.x, I(BoxX + BoxW))

OnPerimeter(e) == e.status = "ok" /\ (OnSideEdge(e) \/ OnTopBottomEdge(e))

\* e is on the ray from the box center through the target
OnRay(e) ==
    LET vx == FSub(e.x, CenterX)
        vy == FSub(e.y, CenterY)
        dx == FSub(TargetX, CenterX)
        dy == FSub(TargetY, CenterY)
    IN  /\ e.status = "ok"
        /\ FEq(FMul(vx, dy), FMul(vy, dx))
        /\ FGt(FAdd(FMul(vx, dx), FMul(vy, dy)), I(0))

\* C1: for a box of positive width and height and a target off the center,
\* both copies of get_box_edge_point return a point of the rectangle's
\* perimeter: on one edge and within that edge's span.
C1_OnPerimeter ==
    (Computed /\ PositiveBox /\ TargetOffCenter)
        => (OnPerimeter(edge_uml) /\ OnPerimeter(edge_erd))

\* C5: for a box of positive width and height and a target off the center,
\* the returned point is collinear with the center and the target and lies
\* on the target's side of the center.
C5_OnRay ==
    (Computed /\ PositiveBox /\ TargetOffCenter) => OnRay(edge_uml)

\* a wide box and a target up and to the right: the side branch is taken and
\* the returned point is on the ray
C5_Witness ==
    /\ Computed
    /\ box_pos = <<0, 0, 4, 2>>
    /\ target_point = <<6, 4>>
    /\ OnRay(edge_uml)
    /\ FEq(edge_uml.x, I(4))

\* C6: a target level with the center and to its right gives the midpoint of
\* the right edge, (x+w, y+h/2).
C6_RightMidpoint ==
    (Computed /\ PositiveBox /\ FEq(TargetY, CenterY) /\ FGt(TargetX, CenterX))
        => /\ edge_uml.status = "ok"
           /\ FEq(edge_uml.x, I(BoxX + BoxW))
           /\ FEq(edge_uml.y, CenterY)

\* box (0,0,10,10), target (20,5), result (10,5)
C6_Witness ==
    /\ Computed
    /\ box_pos = <<0, 0, 10, 10>>
    /\ target_point = <<20, 5>>
    /\ edge_uml.status = "ok"
    /\ FEq(edge_uml.x, I(10))
    /\ FEq(edge_uml.y, I(5))

\* C7: a target on the center's vertical and above it gives the midpoint of
\* the top edge, (x+w/2, y+h), in both copies of get_box_edge_point.
C7_TopMidpoint ==
    (Computed /\ PositiveBox /\ FEq(TargetX, CenterX) /\ FGt(TargetY, CenterY))
        => /\ edge_uml.status = "ok"
           /\ FEq(edge_uml.x, CenterX)
           /\ FEq(edge_uml.y, I(BoxY + BoxH))
           /\ edge_erd.status = "ok"
           /\ FEq(edge_erd.x, CenterX)
           /\ FEq(edge_erd.y, I(BoxY + BoxH))

\* box (0,0,10,10) with center (5,5), target (5,20), result (5,10)
C7_Witness ==
    /\ Computed
    /\ box_pos = <<0, 0, 10, 10>>
    /\ target_point = <<5, 20>>
    /\ edge_uml.status = "ok"
    /\ FEq(edge_uml.x, I(5))
    /\ FEq(edge_uml.y, I(10))
    /\ FEq(edge_erd.x, I(5))
    /\ FEq(edge_erd.y, I(10))

(***************************************************************************)
(* Properties of a script run (checked under Spec)                         *)
(***************************************************************************)
RunEnded == pc = "done"
DirScripts == {GA, IM, DG, PD, AD, SQ}
CwdScripts == {AC, FX, PU}
PerDiagramScripts == {AC, FX}
WholeRunScripts == {GA, IM}

\* number of savefig calls of this run that wrote diagram i's file of type ext
NWritten(i, ext) ==
    Cardinality({k \in 1..Len(written) :
                    /\ written[k][2] = Diagrams(script)[i].file
                    /\ written[k][3] = ext})

Printed(m) == \E k \in 1..Len(stdout) : stdout[k] = m
PrintedKind(kind) == \E k \in 1..Len(stdout) : stdout[k].kind = kind

C4_ExitStatus ==
    RunEnded => (exitStatus = "0" <=> failed = {})

C9_Construct ==
    [][pc = "construct" =>
          /\ pc' # "raised"
          /\ fs' = fs
          /\ dirExists => dirExists'
          /\ script \in DirScripts => dirExists']_vars

\* a generator constructed over a directory that was there, with its entry
C9_Witness ==
    /\ pc = "loop"
    /\ idx = 1
    /\ attempted = {}
    /\ script \in DirScripts
    /\ dirExists
    /\ fs[PreExistingPath] = "preexisting"

\* C10: at most one figure is open at any point of a run and none is open
\* when the run ends.
C10_OneFigure ==
    /\ openFigs <= 1
    /\ RunEnded => openFigs = 0

(***************************************************************************)
(* Further properties of get_box_edge_point (checked under SpecGeom)       *)
(***************************************************************************)
DeltaX == FSub(TargetX, CenterX)
DeltaY == FSub(TargetY, CenterY)
SideCase == FGt(FAbs(DeltaX), FAbs(DeltaY))

SamePoint(a, b) ==
    /\ a.status = b.status
    /\ a.status = "ok" => (FEq(a.x, b.x) /\ FEq(a.y, b.y))

\* C15: the two copies of get_box_edge_point return the same point for every
\* box and target and fail on exactly the same inputs.
C15_SameOperation ==
    Computed => (edge_uml.status # "none" /\ SamePoint(edge_uml, edge_erd))

\* a non-square box and an oblique target: both copies return (4, 5/2)
C15_Witness ==
    /\ Computed
    /\ box_pos = <<0, 0, 4, 2>>
    /\ target_point = <<6, 4>>
    /\ edge_uml.status = "ok"
    /\ edge_erd.status = "ok"
    /\ FEq(edge_erd.x, I(4))
    /\ FEq(edge_erd.y, <<5, 2>>)
    /\ SamePoint(edge_uml, edge_erd)

\* C17: get_box_edge_point fails with a division by zero exactly when the
\* target equals the box center, whatever the width and height (zero
\* included); for every other target it returns a point.
C17_FailsIffCenter ==
    Computed =>
        /\ edge_uml.status = "ZeroDivisionError" <=> ~TargetOffCenter
        /\ edge_uml.status = "ok" <=> TargetOffCenter
        /\ edge_erd.status = "ZeroDivisionError" <=> ~TargetOffCenter
        /\ edge_erd.status = "ok" <=> TargetOffCenter

\* a box of zero width, the target straight above its center: a point comes back
C17_Witness ==
    /\ Computed
    /\ box_pos = <<1, 1, 0, 2>>
    /\ target_point = <<1, 5>>
    /\ edge_uml.status = "ok"
    /\ FEq(edge_uml.y, I(3))

\* C18 as stated: on a zero-size box the call fails with a division by zero.
C18_Original ==
    (Computed /\ BoxW = 0 /\ BoxH = 0) => edge_uml.status = "ZeroDivisionError"

\* C18 amended: on a zero-size box the call fails with a division by zero
\* only when the target is the box's own position (x, y); for every other
\* target it returns (x, y).
C18_Amended ==
    (Computed /\ BoxW = 0 /\ BoxH = 0) =>
        IF target_point = <<BoxX, BoxY>>
        THEN edge_uml.status = "ZeroDivisionError"
        ELSE /\ edge_uml.status = "ok"
             /\ FEq(edge_uml.x, I(BoxX))
             /\ FEq(edge_uml.y, I(BoxY))

\* the zero-size box at (1,1) with the target (3,2): the call returns (1,1)
C18_Witness ==
    /\ Computed
    /\ box_pos = <<1, 1, 0, 0>>
    /\ target_point = <<3, 2>>
    /\ edge_uml.status = "ok"
    /\ FEq(edge_uml.x, I(1))
    /\ FEq(edge_uml.y, I(1))

\* C19: the left or right edge is used only when |dx| > |dy| strictly (right
\* for dx > 0, left for dx < 0); in every other case, the tie |dx| = |dy| # 0
\* included, the top edge is used for dy > 0 and the bottom edge for dy < 0.
C19_EdgeChoice ==
    (Computed /\ edge_uml.status = "ok") =>
        IF SideCase
        THEN /\ FGt(DeltaX, I(0)) => FEq(edge_uml.x, I(BoxX + BoxW))
             /\ FLt(DeltaX, I(0)) => FEq(edge_uml.x, I(BoxX))
             /\ FEq(edge_uml.y,
                    FAdd(CenterY, FDiv(FMul(DeltaY, <<BoxW, 2>>), FAbs(DeltaX))))
        ELSE /\ FGt(DeltaY, I(0)) => FEq(edge_uml.y, I(BoxY + BoxH))
             /\ FLt(DeltaY, I(0)) => FEq(edge_uml.y, I(BoxY))
             /\ FEq(edge_uml.x,
                    FAdd(CenterX, FDiv(FMul(DeltaX, <<BoxH, 2>>), FAbs(DeltaY))))

\* a tie on a box that is wider than high: dx = dy = 3, the top edge is used
\* and the point (3, 2) is not the one the right edge would give
C19_Witness ==
    /\ Computed
    /\ box_pos = <<0, 0, 4, 2>>
    /\ target_point = <<5, 4>>
    /\ FEq(FAbs(DeltaX), FAbs(DeltaY))
    /\ edge_uml.status = "ok"
    /\ FEq(edge_uml.y, I(2))
    /\ FEq(edge_uml.x, I(3))

(***************************************************************************)
(* Properties of the drawing routines (checked under SpecDraw)             *)
(***************************************************************************)
\* the rectangle drawn for class box c
DrawnRect(c) == CHOOSE r \in Range(rects) : r.kind = "class" /\ r.name = c

\* the attribute/method separator plotted in class box c
SectionSeparator(c) == CHOOSE s \in Range(separators) : s.class = c /\ s.line = "line2"

\* the interiors of the two rectangles intersect
Overlap(r, s) ==
    /\ FLt(r.x, FAdd(s.x, s.w))
    /\ FLt(s.x, FAdd(r.x, r.w))
    /\ FLt(r.y, FAdd(s.y, s.h))
    /\ FLt(s.y, FAdd(r.y, r.h))

NoTwoRectsOverlap ==
    \A i, j \in DOMAIN rects : i < j => ~Overlap(rects[i], rects[j])

\* p is on one of the four edges of rectangle r
OnDrawnPerimeter(p, r) ==
    /\ p.status = "ok"
    /\ \/ /\ FEq(p.x, r.x) \/ FEq(p.x, FAdd(r.x, r.w))
          /\ FLe(r.y, p.y)
          /\ FLe(p.y, FAdd(r.y, r.h))
       \/ /\ FEq(p.y, r.y) \/ FEq(p.y, FAdd(r.y, r.h))
          /\ FLe(r.x, p.x)
          /\ FLe(p.x, FAdd(r.x, r.w))

\* C11: in the professional UML class diagram, every attribute text line is
\* placed above the attribute/method separator of its class box, every method
\* text line below it, and no text line is placed below the bottom or above
\* the top of the box as drawn.
C11_TextPlacement ==
    diagram = PU_CLASS =>
        \A k \in DOMAIN texts :
            LET t == texts[k]
                r == DrawnRect(t.class)
                sep == SectionSeparator(t.class).y
            IN  /\ t.section = "attribute" => FGt(t.y, sep)
                /\ t.section = "method" => FLt(t.y, sep)
                /\ FLe(r.y, t.y)
                /\ FLe(t.y, FAdd(r.y, r.h))

\* C12: in every diagram each entry of the relationship table names two
\* declared boxes: the guard skips no entry, no lookup fails, and when the
\* routine is done one line has been drawn per entry of the table.
C12_NoEntrySkipped ==
    /\ skipped = <<>>
    /\ dpc \notin {"KeyError", "ZeroDivisionError"}
    /\ dpc = "done" => Len(rel_lines) = Len(RelationshipTable(diagram))

\* the dissertation UML diagram is done: its three inheritance lines and its
\* ten association lines are drawn
C12_Witness ==
    /\ diagram = PD_UML
    /\ dpc = "done"
    /\ Len(rel_lines) = Len(pd_inheritance_relations) + Len(pd_associations)
    /\ Len(rel_lines) = 13
    /\ rel_lines[3].to = "Administrator"

\* C13: in the professional UML class diagram the class boxes as drawn
\* (declared x, y, width and the final height) are pairwise non-overlapping
\* and none of them overlaps the legend box.
C13_NoOverlap == diagram = PU_CLASS => NoTwoRectsOverlap

\* C14: in the class diagrams of academic_diagram_generator.py and
\* fixed_diagram_generator.py no two drawn rectangles overlap: the class boxes
\* are pairwise disjoint and no legend swatch overlaps a class box.
C14_NoOverlap == diagram \in {AC_CLASS, FX_CLASS} => NoTwoRectsOverlap

\* C20: in the professional UML class diagram both end points of every
\* relationship line lie on the perimeter of the corresponding class box as
\* it is drawn, never strictly inside or outside it.
C20_EndsOnDrawnBoxes ==
    diagram = PU_CLASS =>
        \A k \in DOMAIN rel_lines :
            LET l == rel_lines[k]
            IN  /\ OnDrawnPerimeter(l.ends[1], DrawnRect(l.from))
                /\ OnDrawnPerimeter(l.ends[2], DrawnRect(l.to))

(***************************************************************************)
(* Further properties of a script run (checked under Spec)                 *)
(***************************************************************************)
\* C21: a script prints its final 'all diagrams generated successfully'
\* message only if, during that run, the raster and the vector file of every
\* declared diagram were written; if any diagram failed it is not printed.
C21_SuccessMessage ==
    Printed(Msg("success", "")) =>
        /\ failed = {}
        /\ \A i \in 1..NumDiagrams(script) :
              NWritten(i, "png") = 1 /\ NWritten(i, "pdf") = 1

\* the file names a script declares
DeclaredFiles(s) == {Diagrams(s)[i].file : i \in 1..NumDiagrams(s)}

\* C24 as stated: running a script never overwrites a file written by a
\* different script: a file written by a script keeps that script's content
\* through every later step.
C24_Original ==
    [][\A p \in Paths : fs[p] \in Scripts => fs'[p] = fs[p]]_vars

\* C24 amended: a step of a run changes only files of the running script's
\* own declared diagrams in that script's own directory (the working
\* directory for the three scripts that save by bare name, otherwise
\* dissertation_diagrams), and leaves there the running script's content;
\* every other file keeps its content. A file of another script is
\* overwritten exactly when both scripts declare its path.
C24_Amended ==
    [][\A p \in Paths :
          fs'[p] # fs[p] =>
              /\ fs'[p] = script
              /\ p[1] = (IF script \in CwdScripts THEN CWD ELSE OUTPUT_DIR)
              /\ p[2] \in DeclaredFiles(script)]_vars

\* improved_diagram_generator.py runs after diagram_generator.py: it has
\* replaced the raster file of the ERD, the vector file is still the old one
C24_Witness ==
    /\ script = IM
    /\ runs = 2
    /\ fs[<<OUTPUT_DIR, "pentagon_gym_erd", "png">>] = IM
    /\ fs[<<OUTPUT_DIR, "pentagon_gym_erd", "pdf">>] = DG

(***************************************************************************)
(* Properties of the sequence diagrams                                     *)
(***************************************************************************)

\* the arrowhead of a drawn message lies nearer to the receiver's lifeline
\* than to the sender's
HeadAtReceiver(a) ==
    FLt(FAbs(FSub(a.head, a.to)), FAbs(FSub(a.head, a.from)))

\* C22: in every sequence diagram of every script the arrowhead of each
\* non-self message is drawn at the lifeline of the message's declared
\* receiver, for sync, async and return messages alike.
C22_HeadAtReceiver ==
    \A k \in DOMAIN arrows :
        arrows[k].type # "self" =>
            arrows[k].drawn = "arrow" /\ HeadAtReceiver(arrows[k])

\* C23: in every sequence diagram every declared message is drawn at a
\* height within the vertical span of the lifelines: not above their top y
\* and not below their bottom y.
C23_WithinLifelines ==
    \A k \in DOMAIN arrows : \A l \in DOMAIN lifelines :
        /\ FLe(arrows[k].y, lifelines[l].top)
        /\ FLe(lifelines[l].bottom, arrows[k].y)

\* the sync calls still unanswered after the first n drawn messages
RECURSIVE CallStack(_, _)
CallStack(msgs, n) ==
    IF n = 0
    THEN <<>>
    ELSE LET s == CallStack(msgs, n - 1)
             m == msgs[n]
         IN  IF m.type = "sync"
             THEN Append(s, m)
             ELSE IF m.type = "return" /\ s # <<>>
                  THEN SubSeq(s, 1, Len(s) - 1)
                  ELSE s

\* message m goes from the receiver of the call on top of s to its sender
Answers(m, s) ==
    /\ s # <<>>
    /\ m.from = s[Len(s)].to
    /\ m.to = s[Len(s)].from

GaSequences == {"generate_all_diagrams.registration_sequence",
                "generate_all_diagrams.booking_sequence",
                "generate_all_diagrams.subscription_sequence"}

\* C27: in each of the three sequence diagrams of generate_all_diagrams.py,
\* read in order, every return message goes from the receiver of the most
\* recent still unanswered sync call back to that call's sender: calls and
\* returns are nested like a stack.
C27_ProperlyNested ==
    seq_diagram \in GaSequences =>
        \A k \in DOMAIN arrows :
            arrows[k].type = "return" =>
                Answers(arrows[k], CallStack(arrows, k - 1))

\* the registration diagram is finished: its three returns are drawn, the
\* last of them answering the call two levels up
C27_Witness ==
    /\ seq_diagram = "generate_all_diagrams.registration_sequence"
    /\ spc = "done"
    /\ Len(arrows) = 8
    /\ arrows[7].type = "return"
    /\ Len(CallStack(arrows, 6)) = 2

(***************************************************************************)
(* Properties of the text lines                                            *)
(***************************************************************************)

\* the default lines of get_class_attributes and get_class_methods
Placeholders == {"-attribute1: type", "-attribute2: type",
                 "+method1(): type", "+method2(): type"}

\* C25: in the academic class diagram every declared class box shows
\* attributes and methods of the class's own entry in the lookup tables: the
\* default placeholder lines are never rendered for a declared class.
C25_NoPlaceholder ==
    diagram = "academic_diagram_generator.create_class_diagram" =>
        \A k \in DOMAIN texts : texts[k].text \notin Placeholders

\* the limit the claim gives for the routine that displayed the line
ClaimedLimit ==
    IF tpc \in {"create_class_box.attribute", "create_class_box.method"}
    THEN 30 ELSE 28

\* the line displayed by applying the same loop's expression to s
Redisplayed(s) ==
    IF tpc \in {"create_class_box.attribute", "create_class_box.method"}
    THEN pu_display(s) ELSE pd_display(s)

\* C26: the text displayed for an attribute or method line is the original
\* string when its length is at most the limit L (30 in
\* professional_uml_class_diagram.py, 28 in
\* professional_dissertation_diagrams.py) and otherwise its first L-3
\* characters followed by '...'; so the displayed text never exceeds L
\* characters, and truncating it again changes nothing.
C26_Truncation ==
    tpc # "input" =>
        LET L == ClaimedLimit
        IN  /\ display_text = IF Len(text) <= L
                              THEN text
                              ELSE SubSeq(text, 1, L - 3) \o <<0, 0, 0>>
            /\ Len(display_text) <= L
            /\ Redisplayed(display_text) = display_text

\* a line of 31 characters has gone through the attribute loop of
\* create_class_box: 27 of them are left, followed by three dots
C26_Witness ==
    /\ tpc = "create_class_box.attribute"
    /\ Len(text) = 31
    /\ text[31] # 0
    /\ Len(display_text) = 30
    /\ display_text[27] = text[27]
    /\ SubSeq(display_text, 28, 30) = <<0, 0, 0>>

====
